---- MODULE Spec2Model ----
(***************************************************************************)
(* Verification model of the crypto-news-agent backend: the ingestion      *)
(* write path (URL normalisation, duplicate detection, article             *)
(* processing, per-source ingestion, the manual ingestion route and its    *)
(* database session) and the question read path (rate limiter, content     *)
(* moderation, websocket session handler, RAG answer stream).              *)
(*                                                                         *)
(* Strings are sequences of one-character strings, so that strip, lower,   *)
(* urlparse and urlunparse are computed as the code computes them.         *)
(***************************************************************************)
EXTENDS Integers, Sequences, FiniteSets, TLC

(***************************************************************************)
(* Bounds of the model                                                     *)
(***************************************************************************)
MaxBatch == 2
MaxEmbedFailures == 1
MaxFetchFailures == 1
MaxQuestionsPerMinute == 2
MaxTime == 92
MaxConnects == 2
MaxChecks == 4
MaxMessages == 4
MaxChunks == 2
MaxSessionTime == 361
MaxPieces == 2
MaxDocs == 2
MaxInputs == 2
MaxUpdates == 3
MaxCleanupTime == 4

(***************************************************************************)
(* Text helpers (Python str methods)                                       *)
(***************************************************************************)
None == "None"

UpperCase == <<"A", "B", "C", "D", "E", "F", "G", "H", "I", "J", "K", "L", "M", "N", "O", "P", "Q", "R", "S", "T", "U", "V", "W", "X", "Y", "Z">>
LowerCase == <<"a", "b", "c", "d", "e", "f", "g", "h", "i", "j", "k", "l", "m", "n", "o", "p", "q", "r", "s", "t", "u", "v", "w", "x", "y", "z">>

UpperToLower == [c \in {UpperCase[i] : i \in 1..26} |->
                   LowerCase[CHOOSE i \in 1..26 : UpperCase[i] = c]]

LowerChar(c) == IF c \in DOMAIN UpperToLower THEN UpperToLower[c] ELSE c

\* str.lower()
Lower(s) == [i \in 1..Len(s) |-> LowerChar(s[i])]

Whitespace == {" "}

RECURSIVE LStrip(_)
\* str.lstrip()
LStrip(s) == IF s # <<>> /\ Head(s) \in Whitespace THEN LStrip(Tail(s)) ELSE s

RECURSIVE RStripSet(_, _)
\* str.rstrip(chars)
RStripSet(s, chars) ==
    IF s # <<>> /\ s[Len(s)] \in chars
    THEN RStripSet(SubSeq(s, 1, Len(s) - 1), chars)
    ELSE s

\* str.strip()
Strip(s) == RStripSet(LStrip(s), Whitespace)

\* str.find(c): index of the first occurrence (1-based), 0 when absent
Find(s, chars) ==
    IF \E i \in 1..Len(s) : s[i] \in chars
    THEN CHOOSE i \in 1..Len(s) : s[i] \in chars /\ \A j \in 1..(i - 1) : s[j] \notin chars
    ELSE 0

Letters == {LowerCase[i] : i \in 1..26} \cup {UpperCase[i] : i \in 1..26}
Digits == {"0", "1", "2", "3", "4", "5", "6", "7", "8", "9"}
SchemeChars == Letters \cup Digits \cup {"+", "-", "."}
UsesNetloc == {<<"h", "t", "t", "p">>, <<"h", "t", "t", "p", "s">>, <<"f", "t", "p">>}

(***************************************************************************)
(* urllib.parse.urlparse / urlunparse, as used by normalize_url            *)
(***************************************************************************)
\* urlsplit: the scheme before the first ":", when it is made of scheme
\* characters, and the rest
SplitScheme(url) ==
    LET i == Find(url, {":"})
    IN IF /\ i > 1
          /\ url[1] \in Letters
          /\ \A j \in 1..(i - 1) : url[j] \in SchemeChars
       THEN [scheme |-> Lower(SubSeq(url, 1, i - 1)), rest |-> SubSeq(url, i + 1, Len(url))]
       ELSE [scheme |-> <<>>, rest |-> url]

\* urlsplit: after "//" the netloc runs to the first of "/", "?", "#"
SplitNetloc(url) ==
    IF Len(url) >= 2 /\ url[1] = "/" /\ url[2] = "/"
    THEN LET d == Find(SubSeq(url, 3, Len(url)), {"/", "?", "#"})
         IN IF d = 0
            THEN [netloc |-> SubSeq(url, 3, Len(url)), rest |-> <<>>]
            ELSE [netloc |-> SubSeq(url, 3, d + 1), rest |-> SubSeq(url, d + 2, Len(url))]
    ELSE [netloc |-> <<>>, rest |-> url]

\* url.split(c, 1): the text before the first c and the text after it
SplitAt(url, c) ==
    LET k == Find(url, {c})
    IN IF k = 0 THEN [head |-> url, tail |-> <<>>]
       ELSE [head |-> SubSeq(url, 1, k - 1), tail |-> SubSeq(url, k + 1, Len(url))]

\* urlparse: scheme, netloc, path, query, fragment
urlparse(url) ==
    LET s == SplitScheme(url)
    IN LET n == SplitNetloc(s.rest)
       IN LET f == SplitAt(n.rest, "#")
          IN LET q == SplitAt(f.head, "?")
             IN [scheme |-> s.scheme, netloc |-> n.netloc, path |-> q.head,
                 query |-> q.tail, fragment |-> f.tail]

\* urlunparse((scheme, netloc, path, "", "", ""))
urlunparse(scheme, netloc, path) ==
    LET withNetloc ==
            IF netloc # <<>>
               \/ (scheme # <<>> /\ scheme \in UsesNetloc
                   /\ ~(Len(path) >= 2 /\ path[1] = "/" /\ path[2] = "/"))
            THEN <<"/", "/">> \o netloc
                 \o (IF path # <<>> /\ path[1] # "/" THEN <<"/">> \o path ELSE path)
            ELSE path
    IN IF scheme # <<>> THEN scheme \o <<":">> \o withNetloc ELSE withNetloc

normalize_url(url) ==
    IF url = <<>> \/ Strip(url) = <<>> THEN <<>>
    ELSE LET parsed == urlparse(Strip(url))
         IN urlunparse(IF Lower(parsed.scheme) = <<"h", "t", "t", "p">>
                       THEN <<"h", "t", "t", "p", "s">>
                       ELSE Lower(parsed.scheme),
                       Lower(parsed.netloc),
                       IF parsed.path # <<"/">>
                       THEN RStripSet(Lower(parsed.path), {"/"})
                       ELSE <<"/">>)

\* NewsArticle.compute_content_hash: SHA-256 of f"{title}|{url}", modelled
\* as the hashed text itself (collision-free)
compute_content_hash(title, url) == title \o <<"|">> \o url


(***************************************************************************)
(* Ingestion: inputs                                                       *)
(***************************************************************************)
Runs == {1, 2}
SourceNames == <<"s1", "s2">>
UnknownSource == "nope"

Title == <<"t">>
UrlA == <<"h","t","t","p","s",":","/","/","e","/","a">>
UrlAQuery == <<"h","t","t","p","s",":","/","/","e","/","a","?","q">>
UrlAHttp == <<"H","T","T","P",":","/","/","E","/","A","/">>
UrlB == <<"h","t","t","p","s",":","/","/","e","/","b">>

Articles == {[title |-> Title, url |-> u] : u \in {UrlA, UrlAQuery, UrlAHttp, UrlB}}

SeqsUpTo(S, n) == UNION {[1..k -> S] : k \in 0..n}

\* what each source's feed delivers: any batch for the first source, at
\* most one entry for the second
FeedChoices ==
    {f \in [{"s1", "s2"} -> SeqsUpTo(Articles, MaxBatch)] :
        /\ Len(f["s2"]) <= 1
        /\ \A i \in 1..Len(f["s2"]) : f["s2"][i].url = UrlB}

VARIABLES
    feed,       \* source name -> entries its RSS feed currently delivers
    sources,    \* news_sources table: name -> row
    db,         \* news_articles table, committed rows
    sess,       \* per request: the SQLAlchemy session (flushed rows, state)
    run,        \* per request: position and locals of trigger_manual_ingestion
    obs,        \* per request: outcomes observed at the calls' boundaries
    failures    \* number of provider failures injected so far

VARIABLES
    now,        \* datetime.now(UTC), in seconds
    tracker,    \* _rate_limit_tracker: a function from the keys present
    rl,         \* per client id: session open?, admissions seen by the caller
    ws          \* per client id: the websocket handler of its connection

VARIABLES
    call,       \* a function called directly: its name and arguments
    ret         \* what the call returned or raised

ingestVars == <<feed, sources, db, sess, run, obs, failures>>
questionVars == <<now, tracker, rl, ws>>
callVars == <<call, ret>>
vars == <<feed, sources, db, sess, run, obs, failures, now, tracker, rl, ws, call, ret>>

\* no direct call is made
NoCall == [fn |-> None]
NotReturned == [done |-> FALSE]
CallIdle == call = NoCall /\ ret = NotReturned

ZeroStats == [new_articles |-> 0, duplicate_articles |-> 0, errors |-> 0]
ZeroTotals == [sources_processed |-> 0, sources_succeeded |-> 0, sources_failed |-> 0,
               total_new_articles |-> 0, total_duplicates |-> 0, total_errors |-> 0]
NoResponse == [code |-> 0, status |-> None]

IdleRun == [pc |-> "idle", mode |-> None, todo |-> <<>>, batch |-> <<>>, idx |-> 0,
            stats |-> ZeroStats, source_results |-> <<>>, totals |-> ZeroTotals,
            response |-> NoResponse]

\* outcomes: what process_article did for each article of the current batch;
\* batches: per finished ingest_source call, the batch size and its outcomes;
\* inserted: rows create_news_article returned, with the hash looked up before;
\* startedAfter: the requests that had completed when this one began
\* committed: rows the request's commit made durable
\* requested: the source_id of the request
\* fetched: the sources fetch_feed was called for, in the order of the calls
IdleObs == [outcomes |-> <<>>, batches |-> <<>>, inserted |-> {}, committed |-> {},
            providerFailed |-> FALSE, startedAfter |-> {}, lookup_hash |-> None,
            requested |-> None, fetched |-> <<>>]

NewSession == [pending |-> {}, active |-> TRUE]

IngestRest ==
    /\ sources = [n \in {"s1", "s2"} |->
                    [is_active |-> TRUE, last_error |-> None, ingestion_count |-> 0,
                     last_ingestion_at |-> <<>>]]
    /\ sess = [r \in Runs |-> NewSession]
    /\ run = [r \in Runs |-> IdleRun]
    /\ obs = [r \in Runs |-> IdleObs]
    /\ failures = [embed |-> 0, fetch |-> 0]

IngestInit ==
    /\ feed \in FeedChoices
    /\ db = {}
    /\ IngestRest

\* any of the sources may be inactive
IngestAllInit ==
    /\ feed \in FeedChoices
    /\ db = {}
    /\ sources \in [{"s1", "s2"} ->
                      [is_active : BOOLEAN, last_error : {None}, ingestion_count : {0},
                       last_ingestion_at : {<<>>}]]
    /\ sess = [r \in Runs |-> NewSession]
    /\ run = [r \in Runs |-> IdleRun]
    /\ obs = [r \in Runs |-> IdleObs]
    /\ failures = [embed |-> 0, fetch |-> 0]

\* the ingestion side at rest, for the specifications of the question path
IngestIdle ==
    /\ feed = [n \in {"s1", "s2"} |-> <<>>]
    /\ db = {}
    /\ IngestRest

(***************************************************************************)
(* Repository (services/news_repository.py) over a session                 *)
(***************************************************************************)
\* rows a session reads: committed rows and its own flushed rows
Visible(r) == db \cup sess[r].pending

get_article_by_hash(r, content_hash) ==
    {x \in Visible(r) : x.content_hash = content_hash}

get_active_news_sources ==
    SelectSeq(SourceNames, LAMBDA n : sources[n].is_active)

\* a lookup that takes every name as found
get_source_by_name_any(name) == name

get_source_by_name(name) ==
    IF \E i \in 1..Len(SourceNames) : SourceNames[i] = name THEN name ELSE None

\* the row create_news_article builds
NewsArticle(a, source_name) ==
    [content_hash |-> compute_content_hash(a.title, a.url),
     title |-> a.title, url |-> a.url, source_name |-> source_name]

\* session.flush() of the new row: the unique index on content_hash rejects it
UniqueViolation(r, row) ==
    \E x \in Visible(r) : x.content_hash = row.content_hash

\* the row is held by another session's uncommitted insert: the INSERT waits
InsertBlocked(r, row) ==
    \E o \in Runs \ {r} : \E x \in sess[o].pending : x.content_hash = row.content_hash

(***************************************************************************)
(* ArticleProcessor.process_batch bookkeeping                              *)
(***************************************************************************)
\* process_batch: the counter an outcome of process_article increments
BatchCount(stats, outcome) ==
    CASE outcome = "created" -> [stats EXCEPT !.new_articles = @ + 1]
      [] outcome = "duplicate" -> [stats EXCEPT !.duplicate_articles = @ + 1]
      [] outcome = "raised" -> [stats EXCEPT !.errors = @ + 1]

\* a result record that reports success whatever happened
SourceResultAlwaysSuccess(name, stats, success, msg) ==
    [source_name |-> name, new_articles |-> stats.new_articles,
     duplicates |-> stats.duplicate_articles, errors |-> stats.errors,
     success |-> TRUE, error_message |-> msg]

\* ingest_source: the result record of one source
SourceResult(name, stats, success, msg) ==
    [source_name |-> name, new_articles |-> stats.new_articles,
     duplicates |-> stats.duplicate_articles, errors |-> stats.errors,
     success |-> success, error_message |-> msg]

\* an aggregation that leaves out the sources whose ingestion failed
AggregateSucceededOnly(totals, result) ==
    IF result.success
    THEN [totals EXCEPT !.total_new_articles = @ + result.new_articles,
                        !.total_duplicates = @ + result.duplicates,
                        !.total_errors = @ + result.errors,
                        !.sources_succeeded = @ + 1]
    ELSE totals

\* ingest_all_sources: aggregate one source's result
Aggregate(totals, result) ==
    [totals EXCEPT !.total_new_articles = @ + result.new_articles,
                   !.total_duplicates = @ + result.duplicates,
                   !.total_errors = @ + result.errors,
                   !.sources_succeeded = IF result.success THEN @ + 1 ELSE @,
                   !.sources_failed = IF result.success THEN @ ELSE @ + 1]

\* a loop that takes a source whose ingestion failed once more
AfterSourceRetryFailed(rr, result) ==
    LET todo == IF result.success THEN Tail(rr.todo) ELSE rr.todo
    IN [rr EXCEPT !.source_results = Append(@, result),
                  !.totals = IF rr.mode = "all" THEN Aggregate(@, result) ELSE @,
                  !.todo = todo,
                  !.pc = IF todo = <<>> THEN "commit" ELSE "fetch",
                  !.batch = <<>>, !.idx = 0, !.stats = ZeroStats]

\* ingest_source returned: record it and go on to the next source, or to
\* the route's commit
AfterSource(rr, result) ==
    [rr EXCEPT !.source_results = Append(@, result),
               !.totals = IF rr.mode = "all" THEN Aggregate(@, result) ELSE @,
               !.todo = Tail(@),
               !.pc = IF Tail(rr.todo) = <<>> THEN "commit" ELSE "fetch",
               !.batch = <<>>, !.idx = 0, !.stats = ZeroStats]

\* a process_batch that gives up the batch at the first article that raises
AfterArticleAbortOnError(rr, outcome) ==
    LET stats == BatchCount(rr.stats, outcome)
    IN IF rr.idx < Len(rr.batch) /\ outcome # "raised"
       THEN [rr EXCEPT !.stats = stats, !.idx = @ + 1, !.pc = "lookup"]
       ELSE AfterSource([rr EXCEPT !.stats = stats],
                        SourceResult(Head(rr.todo), stats, TRUE, None))

\* process_batch: count the outcome, continue with the next article, and
\* return the statistics after the last one
AfterArticle(rr, outcome) ==
    LET stats == BatchCount(rr.stats, outcome)
    IN IF rr.idx < Len(rr.batch)
       THEN [rr EXCEPT !.stats = stats, !.idx = @ + 1, !.pc = "lookup"]
       ELSE AfterSource([rr EXCEPT !.stats = stats],
                        SourceResult(Head(rr.todo), stats, TRUE, None))


(***************************************************************************)
(* POST /news/ingest/ (routes.py trigger_manual_ingestion), in the steps   *)
(* separated by its network calls: feed fetch, embedding, commit           *)
(***************************************************************************)
Outcome(o, c) == [outcome |-> o, cause |-> c]

\* obs after process_article produced an outcome for the current article;
\* rr is the request before and nrr after process_batch handled the outcome
Observe(ob, rr, nrr, o, c) ==
    LET outs == Append(ob.outcomes, Outcome(o, c))
    IN IF Len(nrr.source_results) = Len(rr.source_results)
       THEN [ob EXCEPT !.outcomes = outs]
       ELSE [ob EXCEPT !.outcomes = <<>>,
                       !.batches = Append(@, [n |-> Len(rr.batch), fetch |-> "ok",
                                              outcomes |-> outs])]

\* one article handled with the given outcome: the request's next position
\* and what was observed
ArticleDone(r, o, c) ==
    LET nrr == AfterArticle(run[r], o)
    IN /\ run' = [run EXCEPT ![r] = nrr]
       /\ obs' = [obs EXCEPT ![r] = Observe(@, run[r], nrr, o, c)]

\* request entry: resolve the source(s); 404 for an identifier that does
\* not resolve, immediate success when no source is active
TriggerIngestion(r, source_id) ==
    /\ run[r].pc = "idle"
    /\ r = 1 \/ run[1].pc # "idle"
    /\ obs' = [obs EXCEPT ![r].startedAfter = {o \in Runs : run[o].pc = "done"},
                          ![r].requested = source_id]
    /\ IF source_id # None
       THEN IF get_source_by_name(source_id) = None
            THEN run' = [run EXCEPT ![r].pc = "done", ![r].mode = "single",
                                    ![r].response = [code |-> 404, status |-> "not found"]]
            ELSE run' = [run EXCEPT ![r].pc = "fetch", ![r].mode = "single",
                                    ![r].todo = <<source_id>>]
       ELSE LET active == get_active_news_sources
            IN IF active = <<>>
               THEN run' = [run EXCEPT ![r].pc = "commit", ![r].mode = "all"]
               ELSE run' = [run EXCEPT ![r].pc = "fetch", ![r].mode = "all",
                                       ![r].todo = active,
                                       ![r].totals.sources_processed = Len(active)]
    /\ UNCHANGED <<feed, sources, db, sess, failures, questionVars, callVars>>

\* ingest_source step 1: rss_fetcher.fetch_feed raises
FetchRaises(r) ==
    /\ run[r].pc = "fetch"
    /\ failures.fetch < MaxFetchFailures
    /\ failures' = [failures EXCEPT !.fetch = @ + 1]
    /\ LET stats == [ZeroStats EXCEPT !.errors = @ + 1]
           result == SourceResult(Head(run[r].todo), stats, FALSE, "RSS fetch failed")
       IN run' = [run EXCEPT ![r] = AfterSource(@, result)]
    /\ obs' = [obs EXCEPT ![r].providerFailed = TRUE,
                          ![r].fetched = Append(@, Head(run[r].todo)),
                          ![r].batches = Append(@, [n |-> 0, fetch |-> "raised",
                                                    outcomes |-> <<>>])]
    /\ UNCHANGED <<feed, sources, db, sess, questionVars, callVars>>

\* ingest_source step 1: rss_fetcher.fetch_feed returns the feed's entries
FetchReturns(r) ==
    /\ run[r].pc = "fetch"
    /\ LET articles == feed[Head(run[r].todo)]
       IN IF articles = <<>>
          THEN /\ run' = [run EXCEPT ![r] =
                            AfterSource(@, SourceResult(Head(run[r].todo), ZeroStats,
                                                        TRUE, None))]
               /\ obs' = [obs EXCEPT ![r].fetched = Append(@, Head(run[r].todo)),
                                     ![r].batches =
                                        Append(@, [n |-> 0, fetch |-> "ok",
                                                   outcomes |-> <<>>])]
          ELSE /\ run' = [run EXCEPT ![r].pc = "lookup", ![r].batch = articles,
                                     ![r].idx = 1, ![r].stats = ZeroStats]
               /\ obs' = [obs EXCEPT ![r].fetched = Append(@, Head(run[r].todo)),
                                     ![r].outcomes = <<>>]
    /\ UNCHANGED <<feed, sources, db, sess, failures, questionVars, callVars>>

CurrentArticle(r) == run[r].batch[run[r].idx]

\* the hash process_article looks up
LookupHash(a) == compute_content_hash(a.title, normalize_url(a.url))

\* process_article up to the embedding call: any repository call on a
\* session whose flush failed raises; an existing row is a duplicate
ProcessLookup(r) ==
    /\ run[r].pc = "lookup"
    /\ LET a == CurrentArticle(r)
           h == LookupHash(a)
       IN IF ~sess[r].active
          THEN ArticleDone(r, "raised", "session")
          ELSE IF get_article_by_hash(r, h) # {}
          THEN ArticleDone(r, "duplicate", "lookup")
          ELSE /\ run' = [run EXCEPT ![r].pc = "embed"]
               /\ obs' = [obs EXCEPT ![r].lookup_hash = h]
    /\ UNCHANGED <<feed, sources, db, sess, failures, questionVars, callVars>>

\* a process_article that writes the row before it asks for the embedding
EmbedRaisesAfterWrite(r) ==
    /\ run[r].pc = "embed"
    /\ failures.embed < MaxEmbedFailures
    /\ failures' = [failures EXCEPT !.embed = @ + 1]
    /\ sess' = [sess EXCEPT ![r].pending =
                  @ \cup {NewsArticle(CurrentArticle(r), Head(run[r].todo))}]
    /\ LET nrr == AfterArticle(run[r], "raised")
       IN /\ run' = [run EXCEPT ![r] = nrr]
          /\ obs' = [obs EXCEPT ![r] =
                       [Observe(@, run[r], nrr, "raised", "embedding")
                          EXCEPT !.providerFailed = TRUE]]
    /\ UNCHANGED <<feed, sources, db, questionVars, callVars>>

\* embeddings_service.embed_query raises: wrapped as ArticleProcessingError
EmbedRaises(r) ==
    /\ run[r].pc = "embed"
    /\ failures.embed < MaxEmbedFailures
    /\ failures' = [failures EXCEPT !.embed = @ + 1]
    /\ LET nrr == AfterArticle(run[r], "raised")
       IN /\ run' = [run EXCEPT ![r] = nrr]
          /\ obs' = [obs EXCEPT ![r] =
                       [Observe(@, run[r], nrr, "raised", "embedding")
                          EXCEPT !.providerFailed = TRUE]]
    /\ UNCHANGED <<feed, sources, db, sess, questionVars, callVars>>

\* embedding returned; create_news_article adds and flushes the row
EmbedAndCreate(r) ==
    /\ run[r].pc = "embed"
    /\ LET a == CurrentArticle(r)
           row == NewsArticle(a, Head(run[r].todo))
       IN /\ ~InsertBlocked(r, row)
          /\ IF UniqueViolation(r, row)
             THEN \* IntegrityError in flush: the session rolls its
                  \* transaction back and stays unusable until rollback()
                  /\ sess' = [sess EXCEPT ![r] = [pending |-> {}, active |-> FALSE]]
                  /\ ArticleDone(r, "raised", "unique_violation")
             ELSE /\ sess' = [sess EXCEPT ![r].pending = @ \cup {row}]
                  /\ LET nrr == AfterArticle(run[r], "created")
                     IN /\ run' = [run EXCEPT ![r] = nrr]
                        /\ obs' = [obs EXCEPT ![r] =
                                     [Observe(@, run[r], nrr, "created", "insert") EXCEPT
                                        !.inserted = @ \cup
                                           {[row |-> row,
                                             lookup_hash |-> obs[r].lookup_hash]}]]
    /\ UNCHANGED <<feed, sources, db, failures, questionVars, callVars>>

\* session.commit() and the response; a commit on a session whose flush
\* failed raises, which the route turns into rollback and HTTP 500
CommitAndRespond(r) ==
    /\ run[r].pc = "commit"
    /\ IF sess[r].active
       THEN /\ db' = db \cup sess[r].pending
            /\ obs' = [obs EXCEPT ![r].committed = sess[r].pending]
            /\ run' = [run EXCEPT ![r].pc = "done",
                                  ![r].response = [code |-> 200, status |-> "success"]]
       ELSE /\ db' = db
            /\ obs' = obs
            /\ run' = [run EXCEPT ![r].pc = "done",
                                  ![r].response = [code |-> 500, status |-> "error"]]
    /\ sess' = [sess EXCEPT ![r] = NewSession]
    /\ UNCHANGED <<feed, sources, failures, questionVars, callVars>>

IngestNext ==
    \/ \E r \in Runs, sid \in {None, "s1", "s2", UnknownSource} : TriggerIngestion(r, sid)
    \/ \E r \in Runs : FetchRaises(r)
    \/ \E r \in Runs : FetchReturns(r)
    \/ \E r \in Runs : ProcessLookup(r)
    \/ \E r \in Runs : EmbedRaises(r)
    \/ \E r \in Runs : EmbedAndCreate(r)
    \/ \E r \in Runs : CommitAndRespond(r)

\* one ingest-all request
IngestAllNext ==
    \/ TriggerIngestion(1, None)
    \/ FetchRaises(1)
    \/ FetchReturns(1)
    \/ ProcessLookup(1)
    \/ EmbedRaises(1)
    \/ EmbedAndCreate(1)
    \/ CommitAndRespond(1)


(***************************************************************************)
(* Properties of the ingestion path                                        *)
(***************************************************************************)
AllRows == db \cup UNION {sess[r].pending : r \in Runs}

CountOutcome(outs, o) == Cardinality({i \in 1..Len(outs) : outs[i].outcome = o})

\* the feed's entries are pairwise distinct articles (title, normalised URL)
FeedDistinct(s) ==
    \A i, j \in 1..Len(feed[s]) :
        (/\ feed[s][i].title = feed[s][j].title
         /\ normalize_url(feed[s][i].url) = normalize_url(feed[s][j].url)) => i = j

\* request r2 ingested source s after request r1 had ingested it and
\* committed, with no provider failure in either
InSuccession(r1, r2, s) ==
    /\ run[r1].mode = "single" /\ run[r2].mode = "single"
    /\ obs[r1].startedAfter = {} /\ r1 \in obs[r2].startedAfter
    /\ run[r1].response.code = 200
    /\ Len(run[r1].source_results) = 1 /\ Len(run[r2].source_results) = 1
    /\ run[r1].source_results[1].source_name = s
    /\ run[r2].source_results[1].source_name = s
    /\ ~obs[r1].providerFailed /\ ~obs[r2].providerFailed
    /\ feed[s] # <<>> /\ FeedDistinct(s)

\* C1: ingesting the same feed entries twice in succession, the first run
\* reports new_articles > 0 and the second reports new_articles = 0,
\* duplicates equal to the first run's new_articles, and no error
C1_SecondRunAllDuplicates ==
    \A r1, r2 \in Runs : \A s \in {"s1", "s2"} :
        InSuccession(r1, r2, s) =>
            LET first == run[r1].source_results[1]
                second == run[r2].source_results[1]
            IN /\ first.new_articles > 0
               /\ second.new_articles = 0
               /\ second.duplicates = first.new_articles
               /\ second.errors = 0

\* C2: the stored fingerprint is the hash of (title, normalised URL): the
\* hash stored on insert equals the hash looked up before it, and no two
\* stored articles share a title and a normalised URL
C2_FingerprintOfNormalizedUrl ==
    /\ \A r \in Runs : \A e \in obs[r].inserted : e.row.content_hash = e.lookup_hash
    /\ \A x, y \in AllRows :
          (x.title = y.title /\ normalize_url(x.url) = normalize_url(y.url)) => x = y

AllOutcomes(r) ==
    {obs[r].outcomes[i] : i \in 1..Len(obs[r].outcomes)}
    \cup UNION {{obs[r].batches[b].outcomes[i] : i \in 1..Len(obs[r].batches[b].outcomes)} :
                b \in 1..Len(obs[r].batches)}

\* C3: an insert rejected by the uniqueness constraint after the lookup
\* missed is counted in duplicate_articles, not in errors
C3_CollisionCountedAsDuplicate ==
    \A r \in Runs : \A o \in AllOutcomes(r) :
        o.cause = "unique_violation" =>
            /\ BatchCount(ZeroStats, o.outcome).duplicate_articles = 1
            /\ BatchCount(ZeroStats, o.outcome).errors = 0

\* C4: a batch of N articles of which K raise is processed to the end:
\* N articles attempted, errors = K, duplicates counted apart from errors,
\* and new_articles + duplicates + errors = N
C4_BatchAccounting ==
    \A r \in Runs : \A i \in 1..Len(obs[r].batches) :
        LET b == obs[r].batches[i]
            res == run[r].source_results[i]
        IN b.fetch = "ok" =>
              /\ Len(b.outcomes) = b.n
              /\ res.errors = CountOutcome(b.outcomes, "raised")
              /\ res.duplicates = CountOutcome(b.outcomes, "duplicate")
              /\ res.new_articles = CountOutcome(b.outcomes, "created")
              /\ res.new_articles + res.duplicates + res.errors = b.n

\* a finished batch of two whose first article raised and whose second
\* was still processed
C4_Witness ==
    \E r \in Runs : \E i \in 1..Len(obs[r].batches) :
        LET b == obs[r].batches[i]
        IN /\ b.n = 2 /\ Len(b.outcomes) = 2
           /\ b.outcomes[1].outcome = "raised"
           /\ b.outcomes[2].outcome # "raised"
           /\ run[r].source_results[i].errors = 1

SumOver(results, field) ==
    LET RECURSIVE Sum(_)
        Sum(k) == IF k = 0 THEN 0 ELSE results[k][field] + Sum(k - 1)
    IN Sum(Len(results))

\* C5: an ingest-all run in which one source's fetch raised processed every
\* active source, aggregated the results, counted an error for the failing
\* source, and the failing source's stored last_error is set after the run
C5_FailedSourceRecorded ==
    \A r \in Runs :
        (run[r].mode = "all" /\ run[r].pc = "done") =>
            /\ Len(run[r].source_results) = run[r].totals.sources_processed
            /\ run[r].totals.total_new_articles
                 = SumOver(run[r].source_results, "new_articles")
            /\ \A i \in 1..Len(obs[r].batches) :
                  obs[r].batches[i].fetch = "raised" =>
                     /\ run[r].source_results[i].errors >= 1
                     /\ sources[run[r].source_results[i].source_name].last_error # None

\* C6: after a run, every article the run counted as new is stored, whatever
\* failed later in the run
C6_CountedArticlesKept ==
    \A r \in Runs :
        run[r].pc = "done" => \A e \in obs[r].inserted : e.row \in db

\* C7: a request that fails persists nothing, and a request whose ingestion
\* failed is not answered with status success
C7_CommitOnlyOnSuccess ==
    \A r \in Runs :
        run[r].pc = "done" =>
            /\ run[r].response.code # 200 => obs[r].committed = {}
            /\ (run[r].mode = "single" /\ run[r].response.status = "success") =>
                  \A i \in 1..Len(run[r].source_results) :
                      run[r].source_results[i].success

(***************************************************************************)
(* Rate limiter (routes.py _check_rate_limit and its tracker)              *)
(***************************************************************************)
ClientIds == {"c1", "c2"}
WindowSeconds == 60
\* the clock advances in steps that put checks inside a window, exactly one
\* window apart and just over one window apart
TickSteps == {30, 31}
\* the clock of the sessions: a step just over one window, and an idle
\* stretch as long as the connection timeout
SessionTicks == {61}
IdleTicks == {300}
\* the sessions followed step by step: connections share nothing but the
\* tracker, whose keys RateSpec exercises with every client
SessionClients == {"c1"}

\* a cutoff half a minute back
CutoffHalfMinute(t) == t - 30
\* cutoff = now - timedelta(minutes=1)
Cutoff(t) == t - WindowSeconds

\* the timestamps the cleanup keeps
PruneOld(stamps, t) == SelectSeq(stamps, LAMBDA ts : ts > Cutoff(t))

\* the limit compared with > in place of >=
LimitExceeded(stamps) == Len(stamps) > MaxQuestionsPerMinute
\* len(tracker[client_id]) >= WEBSOCKET_MAX_QUESTIONS_PER_MINUTE
LimitReached(stamps) == Len(stamps) >= MaxQuestionsPerMinute

\* a cleanup that leaves the entry in place
TrackerKeep(tr, c) == tr

\* defaultdict(list) read of a key
TrackerGet(tr, c) == IF c \in DOMAIN tr THEN tr[c] ELSE <<>>

TrackerPut(tr, c, stamps) ==
    [x \in DOMAIN tr \cup {c} |-> IF x = c THEN stamps ELSE tr[x]]

\* a cleanup that empties the whole mapping
TrackerClear(tr, c) == <<>>

\* del _rate_limit_tracker[client_id]
TrackerDel(tr, c) == [x \in DOMAIN tr \ {c} |-> tr[x]]

\* a check whose rejection records the time as well
check_rate_limit_recording_rejected(tr, c, t) ==
    LET kept == PruneOld(TrackerGet(tr, c), t)
    IN [ok |-> ~LimitReached(kept), tracker |-> TrackerPut(tr, c, Append(kept, t))]

\* _check_rate_limit(client_id) at time t: the verdict and the tracker after
check_rate_limit(tr, c, t) ==
    LET kept == PruneOld(TrackerGet(tr, c), t)
    IN IF LimitReached(kept)
       THEN [ok |-> FALSE, tracker |-> TrackerPut(tr, c, kept)]
       ELSE [ok |-> TRUE, tracker |-> TrackerPut(tr, c, Append(kept, t))]

NoCheck == [time |-> -1, ok |-> FALSE, prior |-> <<>>, prevRejected |-> FALSE]

\* log: admission times of the current session; allLog: of every session of
\* this identifier; last: the latest check, with the log before it
ClosedClient == [open |-> FALSE, connects |-> 0, checks |-> 0, log |-> <<>>, allLog |-> <<>>,
                 last |-> NoCheck]

\* checks made so far, over all clients
ChecksDone ==
    LET RECURSIVE Total(_)
        Total(S) == IF S = {} THEN 0
                    ELSE LET c == CHOOSE x \in S : TRUE
                         IN rl[c].checks + Total(S \ {c})
    IN Total(ClientIds)

RateInit ==
    /\ now = 0
    /\ tracker = <<>>
    /\ rl = [c \in ClientIds |-> ClosedClient]

\* websocket.accept() and the client_id derivation
RlConnect(c) ==
    /\ ~rl[c].open
    /\ rl[c].connects < MaxConnects
    /\ rl' = [rl EXCEPT ![c].open = TRUE, ![c].connects = @ + 1, ![c].log = <<>>,
                        ![c].last = NoCheck]
    /\ UNCHANGED <<now, tracker, ws, ingestVars, callVars>>

\* the handler's admission check for one received question
RlCheck(c) ==
    /\ rl[c].open
    /\ ChecksDone < MaxChecks
    /\ LET res == check_rate_limit(tracker, c, now)
       IN /\ tracker' = res.tracker
          /\ rl' = [rl EXCEPT
                      ![c].checks = @ + 1,
                      ![c].log = IF res.ok THEN Append(@, now) ELSE @,
                      ![c].allLog = IF res.ok THEN Append(@, now) ELSE @,
                      ![c].last = [time |-> now, ok |-> res.ok, prior |-> rl[c].log,
                                   prevRejected |-> rl[c].last.time >= 0 /\ ~rl[c].last.ok]]
    /\ UNCHANGED <<now, ws, ingestVars, callVars>>

\* the handler's finally block: the client's entry is deleted
RlDisconnect(c) ==
    /\ rl[c].open
    /\ tracker' = IF c \in DOMAIN tracker THEN TrackerDel(tracker, c) ELSE tracker
    /\ rl' = [rl EXCEPT ![c].open = FALSE]
    /\ UNCHANGED <<now, ws, ingestVars, callVars>>

\* time passes, up to the horizon of the specification
Tick(d, horizon) ==
    /\ now + d <= horizon
    /\ now' = now + d
    /\ UNCHANGED <<tracker, rl, ws, ingestVars, callVars>>

RateNext ==
    \/ \E c \in ClientIds : RlConnect(c)
    \/ \E c \in ClientIds : RlCheck(c)
    \/ \E c \in ClientIds : RlDisconnect(c)
    \/ \E d \in TickSteps : Tick(d, MaxTime)

(***************************************************************************)
(* Properties of the rate limiter                                          *)
(***************************************************************************)
\* number of admissions of the log inside the window (t - 60s, t]
InWindow(log, t) ==
    Cardinality({i \in 1..Len(log) : log[i] > t - WindowSeconds /\ log[i] <= t})

\* the last L admissions before the latest check, oldest first
LastAdmits(c) ==
    SubSeq(rl[c].last.prior,
           Len(rl[c].last.prior) - MaxQuestionsPerMinute + 1, Len(rl[c].last.prior))

\* the latest check came 61 s after the first of L admissions that filled
\* one window
AtT1Plus61(c) ==
    /\ rl[c].last.time >= 0
    /\ Len(rl[c].last.prior) >= MaxQuestionsPerMinute
    /\ LastAdmits(c)[MaxQuestionsPerMinute] - LastAdmits(c)[1] < WindowSeconds
    /\ rl[c].last.time = LastAdmits(c)[1] + WindowSeconds + 1

\* C8: after L admitted checks inside one window the next check inside that
\* window is rejected, and a check at t1 + 61 s is accepted
C8_WindowFullThenFree ==
    \A c \in ClientIds :
        /\ (rl[c].last.time >= 0
            /\ InWindow(rl[c].last.prior, rl[c].last.time) >= MaxQuestionsPerMinute)
              => ~rl[c].last.ok
        /\ AtT1Plus61(c) => rl[c].last.ok

\* a check at t1 + 61 s was accepted right after a rejected one
C8_Witness ==
    \E c \in ClientIds : AtT1Plus61(c) /\ rl[c].last.ok /\ rl[c].last.prevRejected

\* the ends of the windows to look at: a window (t - 60s, t] holds no more
\* admissions than the window that ends at the latest admission in it
WindowEnds(log) == {log[i] : i \in 1..Len(log)}

\* C9 as stated: at most max admissions per identifier in any window, over
\* any sequence of checks, disconnects and reconnects
C9_PerIdentifierAcrossReconnects ==
    \A c \in ClientIds : \A t \in WindowEnds(rl[c].allLog) :
        InWindow(rl[c].allLog, t) <= MaxQuestionsPerMinute

\* C9 amended: at most max admissions in any window (t - 60s, t] within one
\* connection of the identifier
C9_PerConnection ==
    \A c \in ClientIds : \A t \in WindowEnds(rl[c].log) :
        InWindow(rl[c].log, t) <= MaxQuestionsPerMinute

\* a connection that was admitted max times inside one window and then
\* rejected
C9_Witness ==
    \E c \in ClientIds :
        /\ rl[c].open /\ rl[c].last.time >= 0 /\ ~rl[c].last.ok
        /\ InWindow(rl[c].log, now) = MaxQuestionsPerMinute

(***************************************************************************)
(* Content moderation (services/content_moderation.py); the regular        *)
(* expressions are matched over the question's characters                  *)
(***************************************************************************)
MAX_QUESTION_LENGTH == 500

\* \w
WordChars == Letters \cup Digits \cup {"_"}

\* re.IGNORECASE literal at position p: the position after it, if it matches
LitEnds(text, p, w) ==
    IF /\ p + Len(w) - 1 <= Len(text)
       /\ \A i \in 1..Len(w) : LowerChar(text[p + i - 1]) = LowerChar(w[i])
    THEN {p + Len(w)} ELSE {}

\* positions after \s+ (least = 1) or \s* (least = 0) read from position p
SpaceEnds(text, p, least) ==
    {q \in (p + least)..(Len(text) + 1) : \A i \in p..(q - 1) : text[i] \in Whitespace}

\* positions after one pattern element read from position p
ElemEnds(text, e, p) ==
    CASE e.t = "lit" -> LitEnds(text, p, e.s)
      [] e.t = "alt" -> UNION {LitEnds(text, p, w) : w \in e.s}
      [] e.t = "opt" -> {p} \cup LitEnds(text, p, e.s)
      [] e.t = "ws" -> SpaceEnds(text, p, e.s)

RECURSIVE MatchEnds(_, _, _, _)
\* positions after elements k.. of the pattern, started from any position of P
MatchEnds(text, pat, k, P) ==
    IF k > Len(pat) \/ P = {} THEN P
    ELSE MatchEnds(text, pat, k + 1, UNION {ElemEnds(text, pat[k], p) : p \in P})

\* regex.search(text) for one pattern
Search(text, pat) ==
    \E p \in 1..(Len(text) + 1) : MatchEnds(text, pat, 1, {p}) # {}

PROFANITY_WORDS ==
    {<<"f", "u", "c", "k">>,
     <<"s", "h", "i", "t">>,
     <<"d", "a", "m", "n">>,
     <<"b", "i", "t", "c", "h">>,
     <<"a", "s", "s", "h", "o", "l", "e">>,
     <<"b", "a", "s", "t", "a", "r", "d">>,
     <<"c", "u", "n", "t">>,
     <<"d", "i", "c", "k">>}

INJECTION_PATTERNS ==
    <<<<[t |-> "lit", s |-> <<"i", "g", "n", "o", "r", "e">>],
       [t |-> "ws", s |-> 1],
       [t |-> "alt", s |-> {<<"p", "r", "e", "v", "i", "o", "u", "s">>, <<"a", "l", "l">>, <<"y", "o", "u", "r">>}],
       [t |-> "ws", s |-> 1],
       [t |-> "lit", s |-> <<"i", "n", "s", "t", "r", "u", "c", "t", "i", "o", "n">>],
       [t |-> "opt", s |-> <<"s">>]>>,
     <<[t |-> "lit", s |-> <<"i", "g", "n", "o", "r", "e">>],
       [t |-> "ws", s |-> 1],
       [t |-> "lit", s |-> <<"a", "l", "l">>],
       [t |-> "ws", s |-> 1]>>,
     <<[t |-> "lit", s |-> <<"y", "o", "u">>],
       [t |-> "ws", s |-> 1],
       [t |-> "lit", s |-> <<"a", "r", "e">>],
       [t |-> "ws", s |-> 1],
       [t |-> "lit", s |-> <<"n", "o", "w">>]>>,
     <<[t |-> "lit", s |-> <<"a", "c", "t">>],
       [t |-> "ws", s |-> 1],
       [t |-> "lit", s |-> <<"a", "s">>],
       [t |-> "ws", s |-> 1],
       [t |-> "opt", s |-> <<"a">>]>>,
     <<[t |-> "lit", s |-> <<"p", "r", "e", "t", "e", "n", "d">>],
       [t |-> "ws", s |-> 1],
       [t |-> "lit", s |-> <<"t", "o">>],
       [t |-> "ws", s |-> 1],
       [t |-> "lit", s |-> <<"b", "e">>]>>,
     <<[t |-> "lit", s |-> <<"s", "y", "s", "t", "e", "m">>],
       [t |-> "ws", s |-> 0],
       [t |-> "lit", s |-> <<":">>],
       [t |-> "ws", s |-> 0]>>,
     <<[t |-> "lit", s |-> <<"f", "o", "r", "g", "e", "t">>],
       [t |-> "ws", s |-> 1],
       [t |-> "alt", s |-> {<<"e", "v", "e", "r", "y", "t", "h", "i", "n", "g">>, <<"a", "l", "l">>, <<"y", "o", "u", "r">>}]>>,
     <<[t |-> "lit", s |-> <<"d", "i", "s", "r", "e", "g", "a", "r", "d">>],
       [t |-> "ws", s |-> 1],
       [t |-> "alt", s |-> {<<"p", "r", "e", "v", "i", "o", "u", "s">>, <<"a", "l", "l">>, <<"y", "o", "u", "r">>}]>>>>

\* \b at position p (between text[p-1] and text[p])
WordBoundary(text, p) ==
    LET before == p > 1 /\ text[p - 1] \in WordChars
        after == p <= Len(text) /\ text[p] \in WordChars
    IN before # after

\* profanity_regex.search: \b(word|...)\b
ProfanitySearch(text) ==
    \E p \in 1..Len(text) : \E w \in PROFANITY_WORDS :
        /\ LitEnds(text, p, w) # {}
        /\ WordBoundary(text, p)
        /\ WordBoundary(text, p + Len(w))

injection_search(text) ==
    \E i \in DOMAIN INJECTION_PATTERNS : Search(text, INJECTION_PATTERNS[i])

\* (.)\1{9,}: a character repeated ten times or more
RepeatedChars(text) ==
    \E p \in 1..(Len(text) - 9) :
        \A i \in 1..9 : LowerChar(text[p + i]) = LowerChar(text[p])

\* (\w+)\s+\1\s+\1: a run of word characters three times in a row
RepeatedWord(text) ==
    \E p \in 1..Len(text) : \E n \in 1..(Len(text) - p + 1) :
        LET w == SubSeq(text, p, p + n - 1)
        IN /\ \A i \in 1..n : w[i] \in WordChars
           /\ MatchEnds(text, <<[t |-> "ws", s |-> 1], [t |-> "lit", s |-> w],
                                [t |-> "ws", s |-> 1], [t |-> "lit", s |-> w]>>,
                        1, {p + n}) # {}

spam_search(text) == RepeatedChars(text) \/ RepeatedWord(text)

ModerationResult(is_valid, reason) == [is_valid |-> is_valid, reason |-> reason]

\* validate_question with the profanity check ahead of the length check
validate_question_profanity_first(question) ==
    IF question = <<>> \/ Strip(question) = <<>>
    THEN ModerationResult(FALSE, "Question cannot be empty")
    ELSE IF ProfanitySearch(question)
    THEN ModerationResult(FALSE, "Question contains inappropriate language")
    ELSE IF Len(question) > MAX_QUESTION_LENGTH
    THEN ModerationResult(FALSE, "Question exceeds maximum length of 500 characters")
    ELSE IF injection_search(question)
    THEN ModerationResult(FALSE, "Question appears to be attempting prompt manipulation")
    ELSE IF spam_search(question)
    THEN ModerationResult(FALSE, "Question contains spam patterns")
    ELSE ModerationResult(TRUE, None)

validate_question(question) ==
    IF question = <<>> \/ Strip(question) = <<>>
    THEN ModerationResult(FALSE, "Question cannot be empty")
    ELSE IF Len(question) > MAX_QUESTION_LENGTH
    THEN ModerationResult(FALSE, "Question exceeds maximum length of 500 characters")
    ELSE IF ProfanitySearch(question)
    THEN ModerationResult(FALSE, "Question contains inappropriate language")
    ELSE IF injection_search(question)
    THEN ModerationResult(FALSE, "Question appears to be attempting prompt manipulation")
    ELSE IF spam_search(question)
    THEN ModerationResult(FALSE, "Question contains spam patterns")
    ELSE ModerationResult(TRUE, None)

(***************************************************************************)
(* RAG engine (services/rag.py stream_answer) and the question session     *)
(* (routes.py ask_question_websocket)                                      *)
(***************************************************************************)
WEBSOCKET_CONNECTION_TIMEOUT_SECONDS == 300
RAG_TOP_K_ARTICLES == 5
\* cosine distances in tenths
RAG_DISTANCE_THRESHOLD == 5
Distances == {5, 6}

\* frames the server sends
Frame(type, content, count) ==
    [type |-> type, content |-> content, count |-> count, sources |-> <<>>]
ErrorFrame(content) == Frame("error", content, 0)

\* a sources frame that lists the best match only
SourcesFrameBestOnly(articles) ==
    [Frame("sources", None, Len(articles)) EXCEPT
       !.sources = <<[title |-> articles[1].title, source |-> articles[1].source_name,
                      url |-> articles[1].url]>>]

\* the sources frame: the count and one {title, source, url} per article
SourcesFrame(articles) ==
    [Frame("sources", None, Len(articles)) EXCEPT
       !.sources = [i \in 1..Len(articles) |->
                      [title |-> articles[i].title, source |-> articles[i].source_name,
                       url |-> articles[i].url]]]
ChunkFrame(content) == Frame("chunk", content, 0)
DoneFrame == Frame("done", None, 0)
NoFrame == Frame("none", None, 0)

RateLimitMessage == "Rate limit exceeded. Please wait before sending more questions."
EmptyMessage == "Question cannot be empty"
InsufficientMessage == "I don't have enough information about that topic in recent news."
TimeoutMessage == "Connection timeout. Please reconnect."
FormatMessage == "Invalid message format"
NotADictMessage == "Server error: 'list' object has no attribute 'get'"

\* exceptions: the type and str(e)
Exception(type, message) == [type |-> type, message |-> message]
NoException == Exception(None, "")
\* what the embedding service, the search and the chat model raise
EmbeddingFailures ==
    {Exception("EmbeddingGenerationError",
               "Failed to generate embedding for query (async): timed out"),
     Exception("EmbeddingGenerationError",
               "Failed to generate embedding for query (async): refused")}
SearchFailures == {Exception("OperationalError", "connection lost")}
GenerationFailures == {Exception("ResponseError", "model not found")}
\* stream_answer's except Exception: raise RAGError(...) from e
RAGError(e) == Exception("RAGError", "Failed to generate answer: " \o e.message)
\* the handler's except Exception frame
ServerErrorMessage(e) == "Server error: " \o e.message

\* fragments the chat model streams; one may be empty
Fragments == {"", "x", "y"}

\* texts a client sends as the question
Blank == <<" ">>
AskBtc == <<" ", "b", "t", "c", " ">>
AskProfane == <<"d", "a", "m", "n", " ", "b", "t", "c">>
Questions == {Blank, AskBtc, AskProfane}

\* client data: text that is not JSON, a JSON list, a JSON object with or
\* without the "question" key
ClientText(json, has_question, question) ==
    [json |-> json, has_question |-> has_question, question |-> question]
ClientData ==
    {ClientText("malformed", FALSE, <<>>), ClientText("array", FALSE, <<>>),
     ClientText("object", FALSE, <<>>)}
    \cup {ClientText("object", TRUE, q) : q \in Questions}
NoData == ClientText("none", FALSE, <<>>)

\* message.get("question", "").strip()
QuestionOf(data) == Strip(IF data.has_question THEN data.question ELSE <<>>)

\* stored articles the question path searches
StoredArticles ==
    {NewsArticle([title |-> Title, url |-> UrlA], "s1"),
     NewsArticle([title |-> Title, url |-> UrlB], "s2")}

\* the orders of a set of rows
RECURSIVE Orders(_)
Orders(S) ==
    IF S = {} THEN {<<>>}
    ELSE UNION {{<<x>> \o o : o \in Orders(S \ {x})} : x \in S}

\* repository.semantic_search: the rows by ascending distance, at most limit
semantic_search(dist, limit) ==
    LET sorted == {o \in Orders(db) :
                     \A i \in 1..(Len(o) - 1) : dist[o[i]] <= dist[o[i + 1]]}
        Top(o) == [i \in 1..(IF Len(o) < limit THEN Len(o) ELSE limit) |->
                     [article |-> o[i], distance |-> dist[o[i]]]]
    IN {Top(o) : o \in sorted}

\* a gate that rejects an empty result only
InsufficientContextEmptyOnly(results) == results = <<>>

\* stream_answer step 3: the relevance gate
InsufficientContext(results) ==
    results = <<>> \/ results[1].distance > RAG_DISTANCE_THRESHOLD

\* step 4: articles, distances = zip(*results)
ArticlesOf(results) == [i \in 1..Len(results) |-> results[i].article]

Verdict(accept, reason) == [accept |-> accept, reason |-> reason]

\* the checks with the empty-text check ahead of the rate limit
EmptyBeforeRateLimit(allowed, question) ==
    IF question = <<>> THEN Verdict(FALSE, EmptyMessage)
    ELSE IF ~allowed THEN Verdict(FALSE, RateLimitMessage)
    ELSE LET result == validate_question(question)
         IN Verdict(result.is_valid, result.reason)

\* the loop body's checks of one parsed message, in the handler's order:
\* the rejection's reason, or acceptance
QuestionChecks(allowed, question) ==
    IF ~allowed THEN Verdict(FALSE, RateLimitMessage)
    ELSE IF question = <<>> THEN Verdict(FALSE, EmptyMessage)
    ELSE LET result == validate_question(question)
         IN Verdict(result.is_valid, result.reason)

\* cur: the latest message of the connection: its data, when it came, the
\* admissions of the connection before it, the frames sent for it, whether
\* the RAG engine was invoked for it, whether the search ran and what it
\* returned, whether the chat model was called, the fragments the model
\* produced and the exception stream_answer raised to the handler
NoMessage ==
    [data |-> NoData, at |-> -1, prior |-> <<>>, frames |-> <<>>, rag |-> FALSE,
     searched |-> FALSE, results |-> <<>>, generated |-> FALSE, chunks |-> <<>>,
     raised |-> NoException]
\* the last frame sent for a message
LastFrame(m) == IF m.frames = <<>> THEN NoFrame ELSE m.frames[Len(m.frames)]

\* prev: the last frame of the message before cur on the same connection
ClosedSession ==
    [pc |-> "closed", connects |-> 0, since |-> 0, received |-> 0, admits |-> <<>>,
     cur |-> NoMessage, prev |-> NoFrame, closing |-> NoFrame, closed_by |-> None]

SessionInit == ws = [c \in ClientIds |-> ClosedSession]

\* the question path at rest, for the specifications of the other paths,
\* and with a store to search
SessionStore ==
    /\ feed = [n \in {"s1", "s2"} |-> <<>>]
    /\ db \in {{}, StoredArticles}
    /\ IngestRest

\* messages received and connections accepted so far, over all clients
MessagesReceived ==
    LET RECURSIVE Total(_)
        Total(S) == IF S = {} THEN 0
                    ELSE LET c == CHOOSE x \in S : TRUE
                         IN ws[c].received + Total(S \ {c})
    IN Total(ClientIds)

ConnectionsAccepted ==
    LET RECURSIVE Total(_)
        Total(S) == IF S = {} THEN 0
                    ELSE LET c == CHOOSE x \in S : TRUE
                         IN ws[c].connects + Total(S \ {c})
    IN Total(ClientIds)

\* a deadline twice the configured timeout after the accept
ExpiredAfterTwice(c) ==
    ws[c].pc # "closed" /\ now >= ws[c].since + 2 * WEBSOCKET_CONNECTION_TIMEOUT_SECONDS

\* asyncio.timeout: the deadline of the connection has passed
Expired(c) ==
    ws[c].pc # "closed" /\ now >= ws[c].since + WEBSOCKET_CONNECTION_TIMEOUT_SECONDS

\* the handler is left: the finally block deletes the client's tracker entry
Leave(c, rec, frame, why) ==
    /\ ws' = [ws EXCEPT ![c] = [rec EXCEPT !.pc = "closed", !.closing = frame,
                                           !.closed_by = why]]
    /\ tracker' = IF c \in DOMAIN tracker THEN TrackerDel(tracker, c) ELSE tracker

\* a frame put ahead of the frames already sent
SentFirst(rec, frame) == [rec EXCEPT !.cur.frames = <<frame>> \o @]

\* websocket.send_json(frame)
Sent(rec, frame) == [rec EXCEPT !.cur.frames = Append(@, frame)]

\* a rejection that also leaves the loop
RejectAndClose(rec, reason) ==
    [Sent(rec, ErrorFrame(reason)) EXCEPT !.pc = "closed", !.closed_by = "rejected"]

\* a failed check: the error frame, then continue at receive_text
Reject(rec, reason) == Sent(rec, ErrorFrame(reason))

\* the gate's rejection leaving stream_answer as an exception
GateMissRaises(rec) ==
    LET e == RAGError(Exception("InsufficientContextError",
                                "No relevant articles found for the given question"))
    IN [Sent(rec, ErrorFrame(ServerErrorMessage(e))) EXCEPT
          !.cur.raised = e, !.pc = "closed", !.closed_by = "Exception"]

\* except InsufficientContextError: the error frame is yielded and sent,
\* the generator ends and the loop is back at receive_text
GateMiss(rec) ==
    [Sent(rec, ErrorFrame(InsufficientMessage)) EXCEPT !.pc = "receive"]

\* every fragment of the model sent as a chunk frame
EmitAll(rec, content) == Sent(rec, ChunkFrame(content))

\* step 5: a fragment with content is yielded and sent as a chunk frame
Emit(rec, content) == IF content # "" THEN Sent(rec, ChunkFrame(content)) ELSE rec

\* websocket.accept(), the client_id derivation and the start of the timeout
WsAccept(c) ==
    /\ ws[c].pc = "closed"
    /\ ConnectionsAccepted < MaxConnects
    /\ ws' = [ws EXCEPT ![c] = [ClosedSession EXCEPT
                                  !.pc = "receive", !.connects = ws[c].connects + 1,
                                  !.since = now, !.received = ws[c].received]]
    /\ UNCHANGED <<now, tracker, rl, ingestVars, callVars>>

\* a handler that reads the next message at any of its awaits
AtAnyAwait(c) == ws[c].pc # "closed"

\* the handler's one coroutine is suspended in websocket.receive_text()
AtReceive(c) == ws[c].pc = "receive"

\* a loop body that checks the text first and counts toward the limit only
\* the questions that pass the empty and moderation checks
WsReceiveCountingValid(c, data) ==
    /\ AtReceive(c)
    /\ ~Expired(c)
    /\ MessagesReceived < MaxMessages
    /\ LET rec == [ws[c] EXCEPT
                     !.received = @ + 1,
                     !.prev = LastFrame(ws[c].cur),
                     !.cur = [NoMessage EXCEPT !.data = data, !.at = now,
                                               !.prior = ws[c].admits]]
       IN IF data.json = "malformed"
          THEN Leave(c, Sent(rec, ErrorFrame(FormatMessage)),
                     ErrorFrame(FormatMessage), "JSONDecodeError")
          ELSE IF data.json # "object"
          THEN Leave(c, Sent(rec, ErrorFrame(NotADictMessage)),
                     ErrorFrame(NotADictMessage), "Exception")
          ELSE LET text == EmptyBeforeRateLimit(TRUE, QuestionOf(data))
                   res == IF text.accept THEN check_rate_limit(tracker, c, now)
                          ELSE [ok |-> FALSE, tracker |-> tracker]
                   checked == [rec EXCEPT !.admits = IF res.ok THEN Append(@, now) ELSE @]
               IN /\ tracker' = res.tracker
                  /\ ws' = [ws EXCEPT ![c] =
                              IF ~text.accept THEN Reject(checked, text.reason)
                              ELSE IF ~res.ok THEN Reject(checked, RateLimitMessage)
                              ELSE [checked EXCEPT !.pc = "embed", !.cur.rag = TRUE]]
    /\ UNCHANGED <<now, rl, ingestVars, callVars>>

\* one pass of the loop from receive_text to the first await after the
\* checks: json.loads, the question text, rate limit, empty, moderation
WsReceive(c, data) ==
    /\ AtReceive(c)
    /\ ~Expired(c)
    /\ MessagesReceived < MaxMessages
    /\ LET rec == [ws[c] EXCEPT
                     !.received = @ + 1,
                     !.prev = LastFrame(ws[c].cur),
                     !.cur = [NoMessage EXCEPT !.data = data, !.at = now,
                                               !.prior = ws[c].admits]]
       IN IF data.json = "malformed"
          THEN Leave(c, Sent(rec, ErrorFrame(FormatMessage)),
                     ErrorFrame(FormatMessage), "JSONDecodeError")
          ELSE IF data.json # "object"
          THEN Leave(c, Sent(rec, ErrorFrame(NotADictMessage)),
                     ErrorFrame(NotADictMessage), "Exception")
          ELSE LET res == check_rate_limit(tracker, c, now)
                   checked == [rec EXCEPT !.admits = IF res.ok THEN Append(@, now) ELSE @]
                   verdict == QuestionChecks(res.ok, QuestionOf(data))
               IN /\ tracker' = res.tracker
                  /\ ws' = [ws EXCEPT ![c] =
                              IF verdict.accept
                              THEN [checked EXCEPT !.pc = "embed", !.cur.rag = TRUE]
                              ELSE Reject(checked, verdict.reason)]
    /\ UNCHANGED <<now, rl, ingestVars, callVars>>

\* a search that consumes the rows it reads
RagSearchDeletes(c) ==
    /\ ws[c].pc = "embed"
    /\ ~Expired(c)
    /\ db' = {}
    /\ ws' = [ws EXCEPT ![c] = GateMiss([@ EXCEPT !.cur.searched = TRUE])]
    /\ UNCHANGED <<now, tracker, rl, feed, sources, sess, run, obs, failures, callVars>>

\* stream_answer steps 1-4: the embedding is returned, the search and the
\* relevance gate, the sources frame
RagSearch(c) ==
    /\ ws[c].pc = "embed"
    /\ ~Expired(c)
    /\ \E dist \in [db -> Distances] :
         \E results \in semantic_search(dist, RAG_TOP_K_ARTICLES) :
           LET rec == [ws[c] EXCEPT !.cur.searched = TRUE, !.cur.results = results]
           IN ws' = [ws EXCEPT ![c] =
                       IF InsufficientContext(results)
                       THEN GateMiss(rec)
                       ELSE [Sent(rec, SourcesFrame(ArticlesOf(results))) EXCEPT
                               !.pc = "generate"]]
    /\ UNCHANGED <<now, tracker, rl, ingestVars, callVars>>

\* what can raise at the handler's position in stream_answer: the embedding
\* call or the search, then the chat model's stream
FailuresAt(pc) ==
    IF pc = "embed" THEN EmbeddingFailures \cup SearchFailures
    ELSE IF pc = "generate" THEN GenerationFailures
    ELSE {}

\* the embedding call, the search or the chat model raises e: stream_answer
\* raises RAGError from it, which leaves the handler through except Exception
RagRaises(c, e) ==
    /\ ws[c].pc \in {"embed", "generate"}
    /\ ~Expired(c)
    /\ e \in FailuresAt(ws[c].pc)
    /\ LET rec == [ws[c] EXCEPT !.cur.raised = RAGError(e),
                                !.cur.generated = @ \/ ws[c].pc = "generate"]
           frame == ErrorFrame(ServerErrorMessage(RAGError(e)))
       IN Leave(c, Sent(rec, frame), frame, "Exception")
    /\ UNCHANGED <<now, rl, ingestVars, callVars>>

\* step 5: the chat model produces a chunk; one with content is sent
RagChunk(c, content) ==
    /\ ws[c].pc = "generate"
    /\ ~Expired(c)
    /\ Len(ws[c].cur.chunks) < MaxChunks
    /\ ws' = [ws EXCEPT ![c] =
                [Emit(@, content) EXCEPT !.cur.chunks = Append(@, content),
                                         !.cur.generated = TRUE]]
    /\ UNCHANGED <<now, tracker, rl, ingestVars, callVars>>

\* step 6: the model's stream ends, the done frame, back to receive_text
RagDone(c) ==
    /\ ws[c].pc = "generate"
    /\ ~Expired(c)
    /\ ws' = [ws EXCEPT ![c] = [Sent(@, DoneFrame) EXCEPT !.pc = "receive",
                                                          !.cur.generated = TRUE]]
    /\ UNCHANGED <<now, tracker, rl, ingestVars, callVars>>

\* the timeout fires at the handler's current await
WsTimeout(c) ==
    /\ Expired(c)
    /\ Leave(c, IF ws[c].pc = "receive" THEN ws[c] ELSE Sent(ws[c], ErrorFrame(TimeoutMessage)),
             ErrorFrame(TimeoutMessage), "TimeoutError")
    /\ UNCHANGED <<now, rl, ingestVars, callVars>>

\* the client goes away: the pending receive or send raises
WsDisconnect(c) ==
    /\ ws[c].pc # "closed"
    /\ ~Expired(c)
    /\ Leave(c, ws[c], NoFrame, "WebSocketDisconnect")
    /\ UNCHANGED <<now, rl, ingestVars, callVars>>

SessionNext ==
    \/ \E c \in SessionClients : WsAccept(c)
    \/ \E c \in SessionClients : \E data \in ClientData : WsReceive(c, data)
    \/ \E c \in SessionClients : RagSearch(c)
    \/ \E c \in SessionClients :
         \E e \in EmbeddingFailures \cup SearchFailures \cup GenerationFailures :
           RagRaises(c, e)
    \/ \E c \in SessionClients : \E content \in Fragments : RagChunk(c, content)
    \/ \E c \in SessionClients : RagDone(c)
    \/ \E c \in SessionClients : WsTimeout(c)
    \/ \E c \in SessionClients : WsDisconnect(c)
    \/ \E d \in SessionTicks : Tick(d, MaxTime)
    \/ \E d \in IdleTicks : Tick(d, MaxSessionTime)

(***************************************************************************)
(* Properties of the question session                                      *)
(***************************************************************************)
\* the message was parsed into a question (a JSON object)
Parsed(m) == m.data.json = "object"

\* the connection's limit was reached when the message came
OverLimit(m) == InWindow(m.prior, m.at) >= MaxQuestionsPerMinute

\* the moderation result of each question text a client can send
Moderated == [q \in {QuestionOf(d) : d \in ClientData} |-> validate_question(q)]

\* the first check the message fails, in the order rate limit, empty text,
\* content moderation; None when it passes all three
FirstFailure(m) ==
    IF OverLimit(m) THEN RateLimitMessage
    ELSE IF QuestionOf(m.data) = <<>> THEN EmptyMessage
    ELSE Moderated[QuestionOf(m.data)].reason

\* C10: a received question gets the checks in the order rate limit, empty
\* text, content moderation: the first one it fails sends exactly one error
\* frame with that check's reason, the RAG engine is not invoked for the
\* message and the handler is back at receiving (or the connection has
\* ended since by timeout or disconnect, with nothing more sent for it)
C10_ChecksInOrder ==
    \A c \in ClientIds :
        LET m == ws[c].cur
            failed == FirstFailure(m)
        IN (Parsed(m) /\ failed # None)
             => /\ m.frames = <<ErrorFrame(failed)>>
                /\ ~m.rag
                /\ \/ ws[c].pc = "receive"
                   \/ ws[c].closed_by \in {"TimeoutError", "WebSocketDisconnect"}

\* a message that fails each of the three checks was rejected for the rate
\* limit, and the handler went on to reject an empty and a moderated one
C10_Witness ==
    \E c \in ClientIds :
        LET m == ws[c].cur
        IN /\ ws[c].pc = "receive" /\ Parsed(m) /\ OverLimit(m)
           /\ QuestionOf(m.data) = <<>>
           /\ m.frames = <<ErrorFrame(RateLimitMessage)>>

\* the connection is open and the handler awaits the next message, or it has
\* ended since by the timeout or by the client going away
StillOpen(c) ==
    \/ ws[c].pc = "receive"
    \/ ws[c].closed_by \in {"TimeoutError", "WebSocketDisconnect"}

\* C11: a message that is not valid JSON gets one format-error frame and the
\* loop continues: the connection stays open for the next question
C11_MalformedKeepsOpen ==
    \A c \in ClientIds :
        LET m == ws[c].cur
        IN m.data.json = "malformed"
             => /\ m.frames = <<ErrorFrame(FormatMessage)>>
                /\ StillOpen(c)

\* the smallest distance among the results of a search
BestDistance(results) ==
    CHOOSE d \in {results[i].distance : i \in DOMAIN results} :
        \A i \in DOMAIN results : d <= results[i].distance

\* the search of the message ran and missed the relevance gate
GateMissed(m) ==
    /\ m.searched
    /\ \/ m.results = <<>>
       \/ BestDistance(m.results) > RAG_DISTANCE_THRESHOLD

\* the search of the message ran and passed the relevance gate
GatePassed(m) == m.searched /\ ~GateMissed(m)

\* C12: a rate-limit rejection, an empty question (reason "Question cannot
\* be empty"), a moderation rejection and a relevance-gate miss each send
\* exactly one error frame and leave the connection open: the handler is
\* back at receiving the next question
C12_RejectionsKeepOpen ==
    \A c \in ClientIds :
        LET m == ws[c].cur
            failed == FirstFailure(m)
        IN /\ (Parsed(m) /\ failed # None)
                => (m.frames = <<ErrorFrame(failed)>> /\ StillOpen(c))
           /\ (Parsed(m) /\ ~OverLimit(m) /\ QuestionOf(m.data) = <<>>)
                => m.frames = <<ErrorFrame("Question cannot be empty")>>
           /\ GateMissed(m)
                => (m.frames = <<ErrorFrame(InsufficientMessage)>> /\ StillOpen(c))

\* after a rate-limit rejection the next question on the same connection
\* was received and answered up to its done frame
C12_Witness ==
    \E c \in ClientIds :
        /\ ws[c].prev = ErrorFrame(RateLimitMessage)
        /\ ws[c].cur.rag
        /\ LastFrame(ws[c].cur) = DoneFrame

\* C13: when the search returns nothing or its best distance is over the
\* threshold, the answer is exactly one error frame, without a sources,
\* chunk or done frame, the chat model is not called and stream_answer ends
\* without raising
C13_RelevanceGate ==
    \A c \in ClientIds :
        LET m == ws[c].cur
        IN GateMissed(m)
             => /\ m.frames = <<ErrorFrame(InsufficientMessage)>>
                /\ ~m.generated
                /\ m.chunks = <<>>
                /\ m.raised = NoException

\* a search whose best distance is 0.6 against the threshold 0.5 was gated
C13_Witness ==
    \E c \in ClientIds :
        LET m == ws[c].cur
        IN /\ m.searched /\ m.results # <<>>
           /\ m.results[1].distance = 6
           /\ m.frames = <<ErrorFrame(InsufficientMessage)>>
           /\ ws[c].pc = "receive"

Terminal(f) == f.type \in {"done", "error"}

\* C14 as stated: every question handed to the RAG engine gets a sources
\* frame first, then chunk frames, then exactly one terminal frame and
\* nothing after it
C14_SourcesFrameFirst ==
    \A c \in ClientIds :
        LET m == ws[c].cur
            n == Len(m.frames)
        IN (m.rag /\ n > 0)
             => /\ m.frames[1].type = "sources"
                /\ \A i \in 2..n :
                     \/ m.frames[i].type = "chunk"
                     \/ i = n /\ Terminal(m.frames[i])
                /\ ws[c].pc = "receive" => Terminal(m.frames[n])

\* C14: the frames of a question handed to the RAG engine are a single
\* error frame (gate miss, or a failure or the timeout before the sources
\* frame), or a sources frame with count >= 1, then chunk frames, then one
\* terminal frame; nothing follows a terminal frame; an answer that is over
\* ends with its terminal frame unless the client went away; and a question
\* whose search passed the gate and whose generation completed got the
\* sources frame, the chunk frames, then done
C14_FrameSequence ==
    \A c \in ClientIds :
        LET m == ws[c].cur
            n == Len(m.frames)
        IN m.rag
             => /\ \A i \in 1..n :
                     /\ Terminal(m.frames[i]) => i = n
                     /\ m.frames[i].type = "sources" => (i = 1 /\ m.frames[i].count >= 1)
                     /\ m.frames[i].type = "chunk" => (i > 1 /\ m.frames[1].type = "sources")
                /\ (ws[c].pc \in {"receive", "closed"}
                      /\ ws[c].closed_by # "WebSocketDisconnect")
                     => (n > 0 /\ Terminal(m.frames[n]))
                /\ (GateMissed(m) \/ ~m.searched) => n <= 1
                /\ (GatePassed(m) /\ ws[c].pc = "receive")
                     => (m.frames[1].type = "sources" /\ m.frames[n] = DoneFrame)

\* a complete answer: sources, two chunks, done
C14_Witness ==
    \E c \in ClientIds :
        LET m == ws[c].cur
        IN /\ ws[c].pc = "receive" /\ GatePassed(m)
           /\ Len(m.frames) = 4
           /\ m.frames[1].type = "sources" /\ m.frames[1].count >= 1
           /\ m.frames[2].type = "chunk" /\ m.frames[3].type = "chunk"
           /\ m.frames[4] = DoneFrame

\* the contents of the chunk frames, in the order sent
ChunkContents(frames) ==
    LET chunks == SelectSeq(frames, LAMBDA f : f.type = "chunk")
    IN [i \in 1..Len(chunks) |-> chunks[i].content]

\* C15: the contents of the chunk frames sent for a question are the
\* non-empty fragments the chat model emitted, in the model's order
C15_ChunksInModelOrder ==
    \A c \in ClientIds :
        LET m == ws[c].cur
        IN ChunkContents(m.frames) = SelectSeq(m.chunks, LAMBDA content : content # "")

\* the model emitted "y" then "x" and both went out in that order
C15_Witness ==
    \E c \in ClientIds :
        LET m == ws[c].cur
        IN m.chunks = <<"y", "x">> /\ ChunkContents(m.frames) = <<"y", "x">>

\* C16: the sources frame counts the articles the search returned and lists
\* one {title, source, url} per article in retrieval order, the articles
\* over the threshold included
C16_SourcesListAllRetrieved ==
    \A c \in ClientIds :
        LET m == ws[c].cur
        IN \A i \in DOMAIN m.frames :
             m.frames[i].type = "sources"
               => /\ m.frames[i].count = Len(m.results)
                  /\ Len(m.frames[i].sources) = Len(m.results)
                  /\ \A j \in DOMAIN m.results :
                       m.frames[i].sources[j] =
                         [title |-> m.results[j].article.title,
                          source |-> m.results[j].article.source_name,
                          url |-> m.results[j].article.url]

\* two articles were retrieved, the second over the threshold, and the
\* sources frame lists both
C16_Witness ==
    \E c \in ClientIds :
        LET m == ws[c].cur
        IN /\ Len(m.results) = 2
           /\ m.results[2].distance > RAG_DISTANCE_THRESHOLD
           /\ Len(m.frames) > 0
           /\ m.frames[1].type = "sources" /\ m.frames[1].count = 2
           /\ m.frames[1].sources[2].url = m.results[2].article.url

\* C17: an exception of the embedding call, the search or the chat model
\* reaches the handler as one RAGError made from it; a gate miss raises
\* nothing; no done frame is sent for a question whose answering raised
C17_FailuresWrapped ==
    \A c \in ClientIds :
        LET m == ws[c].cur
        IN /\ m.raised # NoException
                => /\ m.raised.type = "RAGError"
                   /\ \E e \in EmbeddingFailures \cup SearchFailures \cup GenerationFailures :
                        m.raised.message = "Failed to generate answer: " \o e.message
                   /\ \A i \in DOMAIN m.frames : m.frames[i] # DoneFrame
           /\ GateMissed(m) => m.raised = NoException

\* the chat model raised after a chunk was sent
C17_Witness ==
    \E c \in ClientIds :
        LET m == ws[c].cur
        IN /\ m.raised.type = "RAGError"
           /\ m.generated /\ m.chunks # <<>>
           /\ LastFrame(m).type = "error"

\* C18: an embedding failure fails only its answer: the client gets an
\* error frame for the question and the connection stays open for the
\* next question
C18_EmbeddingFailureKeepsSession ==
    \A c \in ClientIds :
        LET m == ws[c].cur
        IN (\E e \in EmbeddingFailures : m.raised = RAGError(e))
             => /\ Len(m.frames) = 1 /\ m.frames[1].type = "error"
                /\ StillOpen(c)

\* the connection's timeout has run out while the handler is in its loop
DeadlinePassed(c) ==
    /\ ws[c].pc # "closed"
    /\ now - ws[c].since >= WEBSOCKET_CONNECTION_TIMEOUT_SECONDS

\* C19: once the timeout has run out, whatever the handler awaits, its only
\* step is to send one timeout error frame and close; a handler closed by
\* the timeout sends no frame and reads no message afterwards
C19_TimeoutCloses ==
    [][\A c \in ClientIds :
         /\ DeadlinePassed(c)
              => \/ ws'[c] = ws[c]
                 \/ /\ ws'[c].pc = "closed"
                    /\ ws'[c].closed_by = "TimeoutError"
                    /\ ws'[c].closing = ErrorFrame(TimeoutMessage)
                    /\ ws'[c].received = ws[c].received
                    /\ ws'[c].cur.frames \in
                         {ws[c].cur.frames,
                          Append(ws[c].cur.frames, ErrorFrame(TimeoutMessage))}
         /\ (ws[c].pc = "closed" /\ ws[c].closed_by = "TimeoutError")
              => \/ ws'[c] = ws[c]
                 \/ ws'[c].connects = ws[c].connects + 1]_vars

\* the timeout fired in the middle of streaming an answer
C19_Witness ==
    \E c \in ClientIds :
        LET m == ws[c].cur
        IN /\ ws[c].pc = "closed" /\ ws[c].closed_by = "TimeoutError"
           /\ m.chunks # <<>>
           /\ LastFrame(m) = ErrorFrame(TimeoutMessage)
           /\ ws[c].closing = ErrorFrame(TimeoutMessage)

\* C20: after the handler has returned, however its loop ended, the tracker
\* holds no entry for the client identifier
C20_TrackerReleased ==
    \A c \in ClientIds : ws[c].pc = "closed" => c \notin DOMAIN tracker

\* a handler that admitted questions was ended by a malformed message
C20_Witness ==
    \E c \in ClientIds :
        /\ ws[c].pc = "closed" /\ ws[c].closed_by = "JSONDecodeError"
        /\ ws[c].admits # <<>>
        /\ c \notin DOMAIN tracker

\* C21: a connection's next message is read only when the handler is back
\* at receiving, after the terminal frame of the current answer; between
\* two reads every frame sent is appended to the frames of the one question
\* being answered, so frames go out in the order yielded and frames of two
\* questions never interleave
C21_OneAnswerAtATime ==
    [][\A c \in ClientIds :
         LET m == ws[c].cur
             n == Len(m.frames)
             after == ws'[c].cur.frames
         IN IF ws'[c].received # ws[c].received
            THEN /\ ws'[c].received = ws[c].received + 1
                 /\ ws[c].pc = "receive"
                 /\ m.rag => Terminal(LastFrame(m))
            ELSE \/ ws'[c].connects # ws[c].connects
                 \/ after = m.frames
                 \/ Len(after) = n + 1 /\ SubSeq(after, 1, n) = m.frames]_vars

\* a second question was answered after the first answer's done frame
C21_Witness ==
    \E c \in ClientIds :
        LET m == ws[c].cur
        IN /\ ws[c].prev = DoneFrame
           /\ m.rag /\ Len(m.frames) >= 2
           /\ m.frames[1].type = "sources"
           /\ m.chunks # <<>>

\* C22: answering is read-only: no step of a question session, from the
\* receipt of a question to its terminal frame, a disconnect or the timeout
\* in mid-stream included, changes the stored articles or the sources
C22_AnsweringReadOnly ==
    [][db' = db /\ sources' = sources]_vars

\* the client went away in the middle of an answer over a filled store
C22_Witness ==
    \E c \in ClientIds :
        /\ ws[c].pc = "closed" /\ ws[c].closed_by = "WebSocketDisconnect"
        /\ ws[c].cur.searched /\ ws[c].cur.chunks # <<>>
        /\ LastFrame(ws[c].cur).type = "chunk"
        /\ db = StoredArticles

\* C23: an error frame does not depend on the text of an internal
\* exception: whatever made the answering fail, the frame sent is the one
\* any other failure cause would have produced
C23_ErrorFramesFixed ==
    \A c \in ClientIds :
        LET m == ws[c].cur
        IN m.raised # NoException
             => \A e \in EmbeddingFailures \cup SearchFailures \cup GenerationFailures :
                  LastFrame(m) = ErrorFrame(ServerErrorMessage(RAGError(e)))

(***************************************************************************)
(* Functions called directly: the arguments are drawn at the start, one    *)
(* action per function applies it and records what it returned or raised   *)
(***************************************************************************)
\* piece * n
Repeat(piece, n) == [i \in 1..(n * Len(piece)) |-> piece[((i - 1) % Len(piece)) + 1]]

RECURSIVE Join(_)
\* "".join(pieces)
Join(pieces) == IF pieces = <<>> THEN <<>> ELSE Head(pieces) \o Join(Tail(pieces))

\* a 600-character profane text and a 504-character clean one
LongProfane == Repeat(<<"d", "a", "m", "n", " ">>, 120)
LongClean == Repeat(<<"b", "t", "c", " ">>, 126)
\* texts questions are put together from
QuestionPieces ==
    {<<" ">>, <<"b", "t", "c", " ">>, <<"d", "a", "m", "n", " ">>, <<"i", "g", "n", "o", "r", "e", " ", "a", "l", "l", " ">>, <<"a", "a", "a", "a", "a", "a", "a", "a", "a", "a", " ">>, LongProfane, LongClean}
CallQuestions ==
    {Join(ps) : ps \in UNION {[1..n -> QuestionPieces] : n \in 0..MaxPieces}}

\* moderation.validate_question(question)
ValidateQuestion ==
    /\ call.fn = "validate_question" /\ ~ret.done
    /\ ret' = [done |-> TRUE, value |-> validate_question(call.question)]
    /\ UNCHANGED <<call, ingestVars, questionVars>>

\* URLs put together from a scheme, a host, a path, a trailing slash, a
\* query and a fragment
UrlParts ==
    [scheme : {<<>>, <<"h", "t", "t", "p", "s", ":", "/", "/">>, <<"H", "T", "T", "P", ":", "/", "/">>},
     host : {<<"e">>, <<"E">>},
     path : {<<>>, <<"/", "a">>, <<"/", "A">>, <<"/", "a", " ">>},
     slash : {<<>>, <<"/">>},
     query : {<<>>, <<"?", "q">>},
     fragment : {<<>>, <<"#", "f">>}]
UrlOf(u) == u.scheme \o u.host \o u.path \o u.slash \o u.query \o u.fragment

\* two URLs that differ only by query string, fragment, scheme (http or
\* https), letter case or trailing slash
SameResource(u, v) ==
    /\ (u.scheme = <<>>) = (v.scheme = <<>>)
    /\ Lower(u.host) = Lower(v.host)
    /\ Lower(u.path) = Lower(v.path)

\* normalize_url(url) for each URL of the call
NormalizeUrl ==
    /\ call.fn = "normalize_url" /\ ~ret.done
    /\ ret' = [done |-> TRUE, passes |-> 1,
               value |-> [i \in 1..Len(call.urls) |-> normalize_url(call.urls[i])],
               again |-> <<>>]
    /\ UNCHANGED <<call, ingestVars, questionVars>>

\* normalize_url applied to what normalize_url returned
NormalizeReturned ==
    /\ call.fn = "normalize_url" /\ ret.done /\ ret.passes = 1
    /\ ret' = [ret EXCEPT !.passes = 2,
                          !.again = [i \in 1..Len(ret.value) |-> normalize_url(ret.value[i])]]
    /\ UNCHANGED <<call, ingestVars, questionVars>>

(***************************************************************************)
(* RSS fetcher (services/rss_fetcher.py fetch_feed)                        *)
(***************************************************************************)
MIN_CONTENT_LENGTH == 100

\* documents the loader hands over: the metadata's title and link, the page
\* content, and whether reading the document raises (a metadata value that
\* is None has no strip())
Document(title, link, page_content, broken) ==
    [title |-> title, link |-> link, page_content |-> page_content, broken |-> broken]
LongContent == Repeat(<<"x">>, MIN_CONTENT_LENGTH)
PaddedShortContent == <<" ">> \o Repeat(<<"x">>, MIN_CONTENT_LENGTH - 1) \o <<" ">>
Documents ==
    {Document(t, l, c, FALSE) :
        t \in {Title, <<" ">>}, l \in {UrlA, UrlB, <<>>}, c \in {LongContent, PaddedShortContent}}
    \cup {Document(Title, UrlA, LongContent, TRUE)}
\* what happens to the feed: it is loaded, it cannot be fetched, or the
\* loader itself raises
FeedStates == {"loaded", "unreachable", "raises"}

\* RSSFeedLoader(urls=[rss_url], continue_on_failure=True).load(): with
\* continue_on_failure the loader logs a feed URL it cannot fetch and goes
\* on to the next URL, so it returns no document; without it, it raises
LoaderRaises(state, continue_on_failure) ==
    state = "raises" \/ (state = "unreachable" /\ ~continue_on_failure)
Load(state, docs, continue_on_failure) ==
    IF state = "loaded" THEN docs ELSE <<>>

ParsedArticle(title, url, content) == [title |-> title, url |-> url, content |-> content]

RECURSIVE ParseDocuments(_)
\* the loop over the documents: one is skipped when reading it raises, when
\* its title or URL is empty, when its content is under 100 characters
ParseDocuments(documents) ==
    IF documents = <<>> THEN <<>>
    ELSE LET doc == Head(documents)
             title == Strip(doc.title)
             url == Strip(doc.link)
             content == Strip(doc.page_content)
         IN IF doc.broken \/ title = <<>> \/ url = <<>> \/ Len(content) < MIN_CONTENT_LENGTH
            THEN ParseDocuments(Tail(documents))
            ELSE <<ParsedArticle(title, url, content)>> \o ParseDocuments(Tail(documents))

RSSFetchError(source_name, e) ==
    Exception("RSSFetchError", "Failed to fetch RSS feed from " \o source_name \o ": " \o e)

\* fetch_feed(source)
FetchFeed ==
    /\ call.fn = "fetch_feed" /\ ~ret.done
    /\ ret' = IF LoaderRaises(call.feed, TRUE)
              THEN [done |-> TRUE, value |-> <<>>,
                    raised |-> RSSFetchError(call.source, "Network error")]
              ELSE [done |-> TRUE,
                    value |-> ParseDocuments(Load(call.feed, call.documents, TRUE)),
                    raised |-> NoException]
    /\ UNCHANGED <<call, ingestVars, questionVars>>

(***************************************************************************)
(* Embeddings service: services/embeddings.py and the revision of it in    *)
(* features/embeddings/service.py                                          *)
(***************************************************************************)
EmbeddingRevisions == {"services", "features"}
QueryMethods == {"embed_query", "aembed_query"}
DocumentMethods == {"embed_documents", "aembed_documents"}
\* what the provider (OllamaEmbeddings) does with a request
ProviderFailures ==
    {Exception("ConnectError", "refused"), Exception("ReadTimeout", "timed out"),
     Exception("ResponseError", "model not found")}
Queries == {<<>>, Blank, AskBtc}
DocumentLists == UNION {[1..n -> {"a", "b"}] : n \in 0..MaxInputs}

\* if not query or not query.strip() / if not documents
EmptyInput(method, input) ==
    IF method \in QueryMethods THEN input = <<>> \/ Strip(input) = <<>> ELSE input = <<>>

\* the text of the EmbeddingGenerationError of each method
EmbeddingFailureText(method, input, e) ==
    CASE method = "embed_query" -> "Failed to generate embedding for query: " \o e.message
      [] method = "aembed_query" ->
            "Failed to generate embedding for query (async): " \o e.message
      [] method = "embed_documents" ->
            "Failed to generate embeddings for " \o ToString(Len(input))
            \o " documents: " \o e.message
      [] method = "aembed_documents" ->
            "Failed to generate embeddings for " \o ToString(Len(input))
            \o " documents (async): " \o e.message

\* a call's outcome: the value returned, or the exception raised and its
\* __cause__
CallOutcome(value, raised, cause) ==
    [done |-> TRUE, value |-> value, raised |-> raised, cause |-> cause]

\* except Exception as e: in services/embeddings.py raise
\* EmbeddingGenerationError(...) from e, in features/embeddings/service.py a
\* bare raise
EmbeddingExcept(revision, method, input, e) ==
    IF revision = "services"
    THEN CallOutcome(None, Exception("EmbeddingGenerationError",
                                  EmbeddingFailureText(method, input, e)), e)
    ELSE CallOutcome(None, e, NoException)

\* embed_query, embed_documents, aembed_query, aembed_documents
Embed ==
    /\ call.fn = "embed" /\ ~ret.done
    /\ ret' = IF EmptyInput(call.method, call.input)
              THEN CallOutcome(None,
                            Exception("ValueError",
                                      IF call.method \in QueryMethods
                                      THEN "Query cannot be empty"
                                      ELSE "Documents list cannot be empty"),
                            NoException)
              ELSE IF call.provider # NoException
              THEN EmbeddingExcept(call.revision, call.method, call.input, call.provider)
              ELSE CallOutcome("embedding", NoException, NoException)
    /\ UNCHANGED <<call, ingestVars, questionVars>>

(***************************************************************************)
(* Retention sweep (services/ingestion.py cleanup_old_articles,            *)
(* services/news_repository.py delete_old_articles) as the scheduled job   *)
(* runs it (shared/scheduler.py run_scheduled_cleanup); the clock counts   *)
(* days here                                                               *)
(***************************************************************************)
RetentionDays == {1, 2}
\* an article row with its ingestion time
IngestedAt(a, t) ==
    [content_hash |-> compute_content_hash(a.title, a.url), title |-> a.title,
     url |-> a.url, source_name |-> "s1", ingested_at |-> t]
\* stores of up to two articles ingested on the days 0..MaxCleanupTime - 1
AgedStores ==
    {{IngestedAt([title |-> Title, url |-> UrlA], ta)} : ta \in 0..(MaxCleanupTime - 1)}
    \cup {{IngestedAt([title |-> Title, url |-> UrlA], ta),
           IngestedAt([title |-> Title, url |-> UrlB], tb)} :
            ta, tb \in 0..(MaxCleanupTime - 1)}

\* DELETE FROM news_articles WHERE ingested_at < cutoff_date
delete_old_articles(rows, cutoff_date) == {x \in rows : x.ingested_at < cutoff_date}

\* cleanup_old_articles(days): the DELETE is executed in the job's session
\* and its rowcount returned; neither function commits
CleanupOldArticles(days) ==
    /\ call = NoCall
    /\ LET deleted == delete_old_articles(db, now - days)
       IN /\ call' = [fn |-> "cleanup_old_articles", days |-> days, at |-> now,
                      session |-> [deleted |-> deleted, open |-> TRUE]]
          /\ ret' = CallOutcome(Cardinality(deleted), NoException, NoException)
    /\ UNCHANGED <<ingestVars, questionVars>>

\* run_scheduled_cleanup's finally: db_gen.close() leaves `with
\* Session(engine)`, which closes the session; what it did not commit is
\* rolled back
CleanupJobEnds ==
    /\ call.fn = "cleanup_old_articles" /\ call.session.open
    /\ call' = [call EXCEPT !.session.open = FALSE]
    /\ UNCHANGED <<ret, ingestVars, questionVars>>

\* rows a query reads: the job's own session does not see what it deleted,
\* any other session reads the committed rows
QueryRows(in_job) ==
    IF in_job /\ call.fn = "cleanup_old_articles" /\ call.session.open
    THEN db \ call.session.deleted
    ELSE db

CleanupNext ==
    \/ \E days \in RetentionDays : CleanupOldArticles(days)
    \/ CleanupJobEnds
    \/ Tick(1, MaxCleanupTime)

CallNext ==
    \/ ValidateQuestion
    \/ NormalizeUrl
    \/ NormalizeReturned
    \/ FetchFeed
    \/ Embed

\* the rules of validate_question in its order
ModerationReasons ==
    <<"Question cannot be empty",
      "Question exceeds maximum length of 500 characters",
      "Question contains inappropriate language",
      "Question appears to be attempting prompt manipulation",
      "Question contains spam patterns">>
Violates(k, question) ==
    CASE k = 1 -> question = <<>> \/ Strip(question) = <<>>
      [] k = 2 -> Len(question) > MAX_QUESTION_LENGTH
      [] k = 3 -> ProfanitySearch(question)
      [] k = 4 -> injection_search(question)
      [] k = 5 -> spam_search(question)

Validated == call.fn = "validate_question" /\ ret.done

C25_Idempotent ==
    (call.fn = "normalize_url" /\ ret.done /\ ret.passes = 2) => ret.again = ret.value

\* C26: URLs that differ only by query string, fragment, scheme, letter
\* case or trailing slash normalise to one string
C26_SameResourceSameUrl ==
    (call.fn = "normalize_url" /\ ret.done /\ Len(call.urls) = 2)
        => ret.value[1] = ret.value[2]

\* an entry with a title, a URL and content of at least 100 characters
Qualifies(doc) ==
    /\ ~doc.broken
    /\ Strip(doc.title) # <<>>
    /\ Strip(doc.link) # <<>>
    /\ Len(Strip(doc.page_content)) >= MIN_CONTENT_LENGTH

Fetched == call.fn = "fetch_feed" /\ ret.done

\* C27: fetch_feed returns, in feed order, exactly the entries with a title,
\* a URL and content of at least 100 characters, every other entry skipped;
\* a feed that loads with no such entry gives an empty list and no error; a
\* feed that cannot be loaded raises RSSFetchError and never gives a list
C27_FetchFeed ==
    Fetched =>
        IF call.feed = "loaded"
        THEN LET kept == SelectSeq(call.documents, Qualifies)
             IN /\ ret.raised = NoException
                /\ ret.value = [i \in 1..Len(kept) |->
                                  ParsedArticle(Strip(kept[i].title), Strip(kept[i].link),
                                                Strip(kept[i].page_content))]
        ELSE ret.raised.type = "RSSFetchError"

\* C28: a failure of the embedding provider in embed_query, embed_documents
\* or their async variants reaches the caller as EmbeddingGenerationError
\* with the provider's exception as its cause, never as the provider's own
\* exception
C28_ProviderFailureWrapped ==
    (/\ call.fn = "embed" /\ ret.done
     /\ ~EmptyInput(call.method, call.input)
     /\ call.provider # NoException)
        => /\ ret.raised.type = "EmbeddingGenerationError"
           /\ ret.cause = call.provider

(***************************************************************************)
(* Source bookkeeping (services/news_repository.py, crud.py                *)
(* update_ingestion_status); last_ingestion_at is <<>> for None and <<t>>  *)
(* for the time t                                                          *)
(***************************************************************************)
SourceIds == {"s1", "s2", UnknownSource}
ErrorMessages == {None, "RSS fetch failed", "timeout"}

\* an update that counts the failed attempts too
update_ingestion_status_counting_all(srcs, source_id, success, error_message, at) ==
    IF source_id \in DOMAIN srcs
    THEN [srcs EXCEPT ![source_id] =
            IF success
            THEN [@ EXCEPT !.ingestion_count = @ + 1, !.last_ingestion_at = <<at>>,
                           !.last_error = None]
            ELSE [@ EXCEPT !.ingestion_count = @ + 1, !.last_error = error_message]]
    ELSE srcs

\* the rows after update_ingestion_status at the time at
update_ingestion_status(srcs, source_id, success, error_message, at) ==
    IF source_id \in DOMAIN srcs
    THEN [srcs EXCEPT ![source_id] =
            IF success
            THEN [@ EXCEPT !.ingestion_count = @ + 1, !.last_ingestion_at = <<at>>,
                           !.last_error = None]
            ELSE [@ EXCEPT !.last_error = error_message]]
    ELSE srcs

\* calls made so far
Updates == IF call = NoCall THEN 0 ELSE call.n

\* update_ingestion_status(source_id=..., success=..., error_message=...);
\* the call keeps the rows it found
UpdateIngestionStatus(source_id, success, error_message) ==
    /\ Updates < MaxUpdates
    /\ sources' = update_ingestion_status(sources, source_id, success, error_message, now)
    /\ call' = [fn |-> "update_ingestion_status", source_id |-> source_id,
                success |-> success, error_message |-> error_message,
                at |-> now, before |-> sources, n |-> Updates + 1]
    /\ ret' = CallOutcome(None, NoException, NoException)
    /\ UNCHANGED <<feed, db, sess, run, obs, failures, questionVars>>

StatusNext ==
    \/ \E id \in SourceIds, success \in BOOLEAN, e \in ErrorMessages :
         UpdateIngestionStatus(id, success, e)
    \/ Tick(1, MaxUpdates)

(***************************************************************************)
(* IngestionService.run_ingestion (features/news/ingestion_service.py)     *)
(* over the session-bound repository, in the steps separated by its        *)
(* network calls; call.sources are the source rows as the run's session    *)
(* sees them, sources the committed rows                                   *)
(***************************************************************************)
IngestFailedMessage == "Failed to ingest from source: RSS fetch failed"

\* the loop goes on to the next source, or the statistics are returned
RunNextSource(rr) ==
    [rr EXCEPT !.todo = Tail(@),
               !.pc = IF Tail(rr.todo) = <<>> THEN "returned" ELSE "fetch",
               !.batch = <<>>, !.idx = 0, !.stats = ZeroStats]

\* what ends one source's turn: the fetch and the size of its batch
SourceTurn(ob, n, fetch) ==
    [ob EXCEPT !.batches = Append(@, [n |-> n, fetch |-> fetch, outcomes |-> <<>>])]

\* run_ingestion starts: the active sources; none gives the zero statistics
RunIngestion ==
    /\ run[1].pc = "idle" /\ call = NoCall
    /\ LET active == get_active_news_sources
       IN run' = [run EXCEPT ![1] =
                    IF active = <<>>
                    THEN [@ EXCEPT !.pc = "returned", !.mode = "run"]
                    ELSE [@ EXCEPT !.pc = "fetch", !.mode = "run", !.todo = active,
                                   !.totals.sources_processed = Len(active)]]
    /\ call' = [fn |-> "run_ingestion", sources |-> sources, open |-> TRUE]
    /\ UNCHANGED <<feed, sources, db, sess, obs, failures, ret, questionVars>>

\* fetch_feed raises: except Exception counts one error, rolls the session
\* back (every flushed row and status update of the run so far is undone)
\* and records the failure on the source
RunFetchRaises ==
    /\ run[1].mode = "run" /\ run[1].pc = "fetch"
    /\ failures.fetch < MaxFetchFailures
    /\ failures' = [failures EXCEPT !.fetch = @ + 1]
    /\ run' = [run EXCEPT ![1] = RunNextSource([@ EXCEPT !.totals.total_errors = @ + 1])]
    /\ sess' = [sess EXCEPT ![1] = NewSession]
    /\ call' = [call EXCEPT !.sources =
                  update_ingestion_status(sources, Head(run[1].todo), FALSE,
                                          IngestFailedMessage, now)]
    /\ obs' = [obs EXCEPT ![1] = SourceTurn(@, 0, "raised")]
    /\ UNCHANGED <<feed, sources, db, ret, questionVars>>

\* fetch_feed returns: no articles is a success of the source, otherwise
\* process_batch starts
RunFetchReturns ==
    /\ run[1].mode = "run" /\ run[1].pc = "fetch"
    /\ LET articles == feed[Head(run[1].todo)]
       IN IF articles = <<>>
          THEN /\ run' = [run EXCEPT ![1] = RunNextSource(@)]
               /\ call' = [call EXCEPT !.sources =
                             update_ingestion_status(@, Head(run[1].todo), TRUE, None, now)]
               /\ obs' = [obs EXCEPT ![1] = SourceTurn(@, 0, "ok")]
          ELSE /\ run' = [run EXCEPT ![1].pc = "lookup", ![1].batch = articles,
                                     ![1].idx = 1, ![1].stats = ZeroStats]
               /\ call' = call
               /\ obs' = obs
    /\ UNCHANGED <<feed, sources, db, sess, failures, ret, questionVars>>

\* process_batch counted the outcome of the current article; after the last
\* one run_ingestion adds the batch to its totals and records the success
RunArticleDone(outcome) ==
    LET rr == run[1]
        stats == BatchCount(rr.stats, outcome)
    IN IF rr.idx < Len(rr.batch)
       THEN /\ run' = [run EXCEPT ![1] = [rr EXCEPT !.stats = stats, !.idx = @ + 1,
                                                    !.pc = "lookup"]]
            /\ call' = call
            /\ obs' = obs
       ELSE /\ run' = [run EXCEPT ![1] =
                         RunNextSource([rr EXCEPT
                            !.totals.total_new_articles = @ + stats.new_articles,
                            !.totals.total_duplicates = @ + stats.duplicate_articles,
                            !.totals.total_errors = @ + stats.errors])]
            /\ call' = [call EXCEPT !.sources =
                          update_ingestion_status(@, Head(rr.todo), TRUE, None, now)]
            /\ obs' = [obs EXCEPT ![1] = SourceTurn(@, Len(rr.batch), "ok")]

\* process_article up to the embedding call: the hash of title and url as
\* given is looked up; a row found makes the article a duplicate
RunProcessLookup ==
    /\ run[1].mode = "run" /\ run[1].pc = "lookup"
    /\ LET a == CurrentArticle(1)
       IN IF get_article_by_hash(1, compute_content_hash(a.title, a.url)) # {}
          THEN RunArticleDone("duplicate")
          ELSE /\ run' = [run EXCEPT ![1].pc = "embed"]
               /\ call' = call
               /\ obs' = obs
    /\ UNCHANGED <<feed, sources, db, sess, failures, ret, questionVars>>

\* embed_query raises: process_batch counts one error
RunEmbedRaises ==
    /\ run[1].mode = "run" /\ run[1].pc = "embed"
    /\ failures.embed < MaxEmbedFailures
    /\ failures' = [failures EXCEPT !.embed = @ + 1]
    /\ RunArticleDone("raised")
    /\ UNCHANGED <<feed, sources, db, sess, ret, questionVars>>

\* the embedding is returned; create_news_article adds and flushes the row
\* (the lookup on the same hash has just missed, so the flush succeeds)
RunEmbedAndCreate ==
    /\ run[1].mode = "run" /\ run[1].pc = "embed"
    /\ sess' = [sess EXCEPT ![1].pending =
                  @ \cup {NewsArticle(CurrentArticle(1), Head(run[1].todo))}]
    /\ RunArticleDone("created")
    /\ UNCHANGED <<feed, sources, db, failures, ret, questionVars>>

\* the caller (features/news/router.py trigger_manual_ingestion, or the
\* scheduled job) takes the statistics and the session is closed by get_db:
\* no commit is made, what the run flushed is rolled back
RunIngestionEnds ==
    /\ run[1].mode = "run" /\ run[1].pc = "returned"
    /\ run' = [run EXCEPT ![1].pc = "done",
                          ![1].response = [code |-> 200, status |-> "success"]]
    /\ sess' = [sess EXCEPT ![1] = NewSession]
    /\ call' = [call EXCEPT !.sources = sources, !.open = FALSE]
    /\ UNCHANGED <<feed, sources, db, obs, failures, ret, questionVars>>

RunIngestionNext ==
    \/ RunIngestion
    \/ RunFetchRaises
    \/ RunFetchReturns
    \/ RunProcessLookup
    \/ RunEmbedRaises
    \/ RunEmbedAndCreate
    \/ RunIngestionEnds

Updated == call.fn = "update_ingestion_status"

\* C29: update_ingestion_status with success adds exactly one to the
\* source's ingestion counter, sets last_ingestion_at and clears last_error;
\* without success it records last_error and leaves the counter and
\* last_ingestion_at as they were; for a source id that does not exist it
\* changes nothing; no other source is touched
C29_StatusUpdate ==
    Updated =>
        LET id == call.source_id
            before == call.before
        IN /\ DOMAIN sources = DOMAIN before
           /\ \A s \in DOMAIN sources \ {id} : sources[s] = before[s]
           /\ id \in DOMAIN before =>
                /\ sources[id].is_active = before[id].is_active
                /\ IF call.success
                   THEN /\ sources[id].ingestion_count = before[id].ingestion_count + 1
                        /\ sources[id].last_ingestion_at = <<call.at>>
                        /\ sources[id].last_error = None
                   ELSE /\ sources[id].last_error = call.error_message
                        /\ sources[id].ingestion_count = before[id].ingestion_count
                        /\ sources[id].last_ingestion_at = before[id].last_ingestion_at

\* a source that had succeeded once and then failed fails again with another
\* message: the counter and the time stay, the error is replaced
C29_Witness ==
    /\ Updated /\ ~call.success
    /\ call.source_id \in DOMAIN sources
    /\ call.before[call.source_id].ingestion_count = 1
    /\ call.before[call.source_id].last_error \notin {None, call.error_message}
    /\ call.error_message # None
    /\ call.at > 0

\* C30: ingest_source returns a result whatever happens to a resolvable
\* source: success is true exactly when the fetch did not raise and the
\* batch was processed to its end, an empty fetch (all counts zero) and a
\* batch with per-article errors included; when the fetch raised, success is
\* false, error_message is set and new_articles and duplicates are zero;
\* success is true exactly when error_message is absent
C30_IngestSourceResult ==
    \A r \in Runs :
        LET results == run[r].source_results
            batches == obs[r].batches
        IN /\ Len(results) = Len(batches)
           /\ \A i \in 1..Len(results) :
                LET result == results[i]
                    batch == batches[i]
                IN /\ result.success <=> batch.fetch = "ok"
                   /\ result.success <=> result.error_message = None
                   /\ batch.fetch = "raised" =>
                        /\ ~result.success
                        /\ result.error_message \notin {None, ""}
                        /\ result.new_articles = 0 /\ result.duplicates = 0
                   /\ batch.fetch = "ok" =>
                        /\ Len(batch.outcomes) = batch.n
                        /\ result.new_articles + result.duplicates + result.errors = batch.n

\* one run got a failure result for a source whose fetch raised and a
\* success result for a source whose batch had an article that raised
C30_Witness ==
    \E r \in Runs :
        \E i, j \in 1..Len(run[r].source_results) :
            /\ obs[r].batches[i].fetch = "raised"
            /\ ~run[r].source_results[i].success
            /\ run[r].source_results[j].success
            /\ run[r].source_results[j].errors > 0

KnownSources == {SourceNames[i] : i \in 1..Len(SourceNames)}

\* C31: a request for an identifier that resolves to no source ends as not
\* found (ValueError, answered with HTTP 404) with no fetch, no article
\* processed and nothing persisted; no request for a known source ends so
C31_UnknownSourceNotFound ==
    \A r \in Runs :
        obs[r].requested # None =>
            IF obs[r].requested \notin KnownSources
            THEN /\ run[r].pc = "done"
                 /\ run[r].response = [code |-> 404, status |-> "not found"]
                 /\ run[r].source_results = <<>>
                 /\ obs[r].batches = <<>> /\ obs[r].outcomes = <<>>
                 /\ obs[r].inserted = {} /\ obs[r].committed = {}
                 /\ sess[r].pending = {}
            ELSE run[r].response.code # 404

\* a request for an unknown source was answered while the other request had
\* stored an article
C31_Witness ==
    \E r, o \in Runs :
        /\ obs[r].requested = UnknownSource
        /\ run[r].response.code = 404
        /\ obs[o].committed # {}
        /\ db = obs[o].committed

\* request r alone ingested, with no provider failure, a batch of two
\* entries that are the same (title, url), as the i-th source of the run
SameEntryTwice(r, i) ==
    LET s == run[r].source_results[i].source_name
    IN /\ \A o \in Runs \ {r} : run[o].pc = "idle"
       /\ ~obs[r].providerFailed
       /\ obs[r].batches[i].fetch = "ok"
       /\ Len(feed[s]) = 2 /\ feed[s][1] = feed[s][2]
       /\ \A j \in 1..(i - 1) : obs[r].batches[j].n = 0

\* C32: within one unit of work, with no commit in between, a later lookup
\* by fingerprint sees the article an earlier step wrote: a batch with the
\* same (title, url) twice counts the first as new and the second as
\* duplicate, and one article is stored
C32_FlushedArticleSeen ==
    \A r \in Runs : \A i \in 1..Len(obs[r].batches) :
        SameEntryTwice(r, i) =>
            /\ run[r].source_results[i].new_articles = 1
            /\ run[r].source_results[i].duplicates = 1
            /\ run[r].source_results[i].errors = 0
            /\ run[r].pc = "done" =>
                 LET entry == feed[run[r].source_results[i].source_name][1]
                 IN Cardinality({x \in db : x.title = entry.title /\ x.url = entry.url}) = 1

\* C33: cleanup_old_articles(days) deletes exactly the articles ingested
\* before now minus days, returns their number, leaves every other article
\* as it was, and no later query returns a deleted article
C33_CleanupDeletesOld ==
    call.fn = "cleanup_old_articles" =>
        LET old == {x \in db : x.ingested_at < call.at - call.days}
        IN /\ call.session.deleted = old
           /\ ret.value = Cardinality(old)
           /\ db \ old \subseteq QueryRows(TRUE) /\ db \ old \subseteq QueryRows(FALSE)
           /\ ~call.session.open => QueryRows(FALSE) \cap old = {}

LastOutcome(r) ==
    IF obs[r].outcomes # <<>> THEN obs[r].outcomes[Len(obs[r].outcomes)]
    ELSE LET b == obs[r].batches[Len(obs[r].batches)]
         IN b.outcomes[Len(b.outcomes)]

\* C35: process_article writes an article only after the fingerprint lookup
\* missed and the embedding call succeeded: a row is added only by the step
\* that follows the embedding call, for the fingerprint whose lookup missed;
\* a lookup that finds an article signals duplicate with no embedding call
\* and no write; a failed embedding call writes nothing
C35_WriteAfterLookupAndEmbedding ==
    [][\A r \in Runs :
         /\ sess'[r].pending \ sess[r].pending # {} =>
              /\ run[r].pc = "embed"
              /\ obs[r].lookup_hash = LookupHash(CurrentArticle(r))
              /\ failures' = failures
              /\ LastOutcome(r)' = Outcome("created", "insert")
              /\ sess'[r].pending \ sess[r].pending
                   = {NewsArticle(CurrentArticle(r), Head(run[r].todo))}
         /\ (/\ run[r].pc = "lookup" /\ run'[r] # run[r] /\ sess[r].active
             /\ get_article_by_hash(r, LookupHash(CurrentArticle(r))) # {}) =>
              /\ LastOutcome(r)' = Outcome("duplicate", "lookup")
              /\ run'[r].pc # "embed"
              /\ failures' = failures /\ sess' = sess /\ db' = db
         /\ (/\ run[r].pc = "embed" /\ run'[r] # run[r]
             /\ failures'.embed # failures.embed) =>
              /\ LastOutcome(r)' = Outcome("raised", "embedding")
              /\ sess' = sess /\ db' = db]_vars

\* one request met an article already stored and one ended with nothing
\* written after its embedding call failed
C35_Witness ==
    \E r, o \in Runs :
        /\ Outcome("duplicate", "lookup") \in AllOutcomes(r)
        /\ Outcome("raised", "embedding") \in AllOutcomes(o)
        /\ run[o].pc = "done" /\ obs[o].inserted = {} /\ obs[o].committed = {}

\* the entries of a list that are newer than one minute before t, in order
Fresh(stamps, t) ==
    LET keep == {i \in 1..Len(stamps) : stamps[i] > t - WindowSeconds}
        Nth(k) == CHOOSE i \in keep : Cardinality({j \in keep : j < i}) = k - 1
    IN [k \in 1..Cardinality(keep) |-> stamps[Nth(k)]]

\* C36: after every admission check the client's stored list holds at most
\* max entries, all newer than one minute before the latest check; an
\* accepted check leaves the fresh entries followed by exactly one new
\* timestamp, a rejected check leaves the fresh entries and records nothing
C36_StoredListBounded ==
    [][\A c \in ClientIds :
         /\ c \in DOMAIN tracker' =>
              /\ Len(tracker'[c]) <= MaxQuestionsPerMinute
              /\ rl'[c].last.time >= 0
              /\ \A i \in 1..Len(tracker'[c]) :
                     tracker'[c][i] > rl'[c].last.time - WindowSeconds
         /\ rl'[c].checks = rl[c].checks + 1 =>
              LET before == TrackerGet(tracker, c)
                  after == TrackerGet(tracker', c)
              IN /\ c \in DOMAIN tracker'
                 /\ rl'[c].last.ok => after = Append(Fresh(before, now), now)
                 /\ ~rl'[c].last.ok => after = Fresh(before, now)]_vars

\* an accepted check that followed a rejected one and dropped admissions of
\* the same connection from the stored list
C36_Witness ==
    \E c \in ClientIds :
        /\ c \in DOMAIN tracker
        /\ rl[c].last.time >= 0 /\ rl[c].last.ok /\ rl[c].last.prevRejected
        /\ Len(rl[c].log) > Len(tracker[c])

\* the message fails the empty-text check or content moderation
RejectedText(m) ==
    QuestionOf(m.data) = <<>> \/ ~Moderated[QuestionOf(m.data)].is_valid

\* C37: every parsed message that passes the rate-limit check is recorded as
\* an admission, in the connection's count and in the tracker, whether or
\* not it is then rejected as empty or by content moderation; a message that
\* comes when max admissions lie within the minute is rejected for the rate
\* limit and records nothing, a valid question included
C37_RejectedMessagesCount ==
    \A c \in ClientIds :
        LET m == ws[c].cur
        IN Parsed(m) =>
             /\ ~OverLimit(m) => ws[c].admits = Append(m.prior, m.at)
             /\ OverLimit(m) =>
                  /\ ws[c].admits = m.prior
                  /\ m.frames = <<ErrorFrame(RateLimitMessage)>>
                  /\ ~m.rag
             /\ ws[c].pc # "closed" =>
                  TrackerGet(tracker, c) = Fresh(ws[c].admits, m.at)

\* a valid question is turned away for the rate limit right after a message
\* that was rejected for its text, on a connection whose max admissions of
\* the last minute are all it received before
C37_Witness ==
    \E c \in ClientIds :
        LET m == ws[c].cur
        IN /\ ws[c].pc = "receive" /\ ws[c].connects = 1
           /\ Parsed(m) /\ ~RejectedText(m)
           /\ m.frames = <<ErrorFrame(RateLimitMessage)>>
           /\ Len(m.prior) = MaxQuestionsPerMinute
           /\ ws[c].received = MaxQuestionsPerMinute + 1
           /\ InWindow(m.prior, m.at) = MaxQuestionsPerMinute
           /\ ws[c].prev \in {ErrorFrame(EmptyMessage)}
                               \cup {ErrorFrame(Moderated[q].reason) :
                                       q \in {x \in DOMAIN Moderated : ~Moderated[x].is_valid}}

RunReturned == run[1].mode = "run" /\ run[1].pc = "returned"

\* C39: when run_ingestion returns, the articles its session holds are as
\* many as the total_new_articles it reports, and every source whose turn
\* ended in success has its ingestion counted, whatever happened to the
\* sources that came later
C39_StoredEqualsReported ==
    RunReturned =>
        /\ Cardinality(Visible(1)) = run[1].totals.total_new_articles
        /\ \A i \in 1..Len(obs[1].batches) :
               obs[1].batches[i].fetch = "ok" =>
                   call.sources[get_active_news_sources[i]].ingestion_count = 1

\* the aggregate ingest_all_sources returns is complete
AllReturned(r) == run[r].mode = "all" /\ run[r].pc \in {"commit", "done"}

Init == IngestInit /\ RateInit /\ SessionInit /\ CallIdle

Next == IngestNext

\* the ingestion requests
Spec == Init /\ [][Next]_vars

\* the rate limiter under connects, checks, disconnects and the clock
RateStart == IngestIdle /\ RateInit /\ SessionInit /\ CallIdle
RateSpec == RateStart /\ [][RateNext]_vars

\* the question sessions: the websocket handler and the RAG answer stream
SessionStart == SessionStore /\ RateInit /\ SessionInit /\ CallIdle
SessionSpec == SessionStart /\ [][SessionNext]_vars

\* the functions called directly, each on arguments drawn at the start
CallStart ==
    /\ IngestIdle /\ RateInit /\ SessionInit
    /\ ret = NotReturned
    /\ \/ \E q \in CallQuestions : call = [fn |-> "validate_question", question |-> q]
       \/ \E u \in UrlParts : call = [fn |-> "normalize_url", urls |-> <<UrlOf(u)>>]
       \/ \E u, v \in UrlParts :
            /\ SameResource(u, v)
            /\ call = [fn |-> "normalize_url", urls |-> <<UrlOf(u), UrlOf(v)>>]
       \/ \E n \in 0..MaxDocs : \E docs \in [1..n -> Documents] :
            call = [fn |-> "fetch_feed", source |-> "s1", feed |-> "loaded", documents |-> docs]
       \/ \E f \in FeedStates \ {"loaded"} :
            call = [fn |-> "fetch_feed", source |-> "s1", feed |-> f, documents |-> <<>>]
       \/ \E r \in EmbeddingRevisions, p \in ProviderFailures \cup {NoException} :
            \/ \E m \in QueryMethods, q \in Queries :
                 call = [fn |-> "embed", revision |-> r, method |-> m, input |-> q,
                         provider |-> p]
            \/ \E m \in DocumentMethods, d \in DocumentLists :
                 call = [fn |-> "embed", revision |-> r, method |-> m, input |-> d,
                         provider |-> p]
CallSpec == CallStart /\ [][CallNext]_vars

\* the bookkeeping of the sources under repeated updates and the clock
StatusStart == IngestIdle /\ RateInit /\ SessionInit /\ CallIdle
StatusSpec == StatusStart /\ [][StatusNext]_vars

\* the retention sweep over stores of aged articles
CleanupStart ==
    /\ feed = [n \in {"s1", "s2"} |-> <<>>]
    /\ db \in AgedStores
    /\ IngestRest /\ RateInit /\ SessionInit /\ CallIdle
CleanupSpec == CleanupStart /\ [][CleanupNext]_vars

\* one ingest-all request over sources of which any may be inactive
IngestAllStart == IngestAllInit /\ RateInit /\ SessionInit /\ CallIdle
IngestAllSpec == IngestAllStart /\ [][IngestAllNext]_vars

\* one run_ingestion call over sources of which any may be inactive
RunIngestionStart == IngestAllInit /\ RateInit /\ SessionInit /\ CallIdle
RunIngestionSpec == RunIngestionStart /\ [][RunIngestionNext]_vars

====
